---- MODULE Spec2Model ----
(***************************************************************************)
(* A state-machine model of the dexscanner bot: the ring-buffered chart    *)
(* and its signal engine (extended_pool.py), the pool registry (pools.py,  *)
(* network.py), the API refresh cycle (pools_with_api.py) and the main     *)
(* loop (main.py).                                                         *)
(*                                                                         *)
(* Conventions.  Python exceptions are the strings "IndexError",           *)
(* "TypeError", "AttributeError"; "None" in an err field means the call    *)
(* returned.  Timestamps are whole minutes.  A price change is a fraction; *)
(* it is kept exactly, as an integer number of 1/Scale units, where Scale  *)
(* is a common multiple of 100 and of every price of the model.            *)
(***************************************************************************)
EXTENDS Integers, Sequences, FiniteSets, TLC

VARIABLES
    chart,      \* the Chart under test: ticks (CircularList), trends, signal_end_timestamp
    call        \* the last call made on the chart: what was called (op, ticks, only_new),
                \* on what (pre), what came back (ret, err, match), and what the latest
                \* has_signal(only_new=True) call before it matched (asked)

VARIABLES
    registry,   \* the PoolsWithAPI object: pools, tokens, dexes, pool_filter,
                \* repeated_pool_filter_key, update_counter
    heap,       \* the Token, DEX and Pool objects the registry reaches
    created,    \* the number of provider records converted into objects so far
    users,      \* the Users object: user_ids, muted (pairs of a user and a token address)
    running,    \* the main loop has not been ended by an exception
    event       \* the last operation on the registry or cycle of the main loop:
                \* what ran (op), on what (pre), how it ended (err) and what it did

chartVars == <<chart, call>>
botVars == <<registry, heap, created, users, running, event>>
vars == <<chart, call, registry, heap, created, users, running, event>>

-----------------------------------------------------------------------------
(* Bounds of the model *)

\* capacity of the ring buffer (CHART_MAX_TICKS, 2000 in the program, scaled down)
Capacity == 5
\* longest batch handed to Chart.update in one call
MaxBatch == 2
\* latest timestamp (minutes) of a batch sample in the update scenarios
MaxTime == 2
\* longest price series a chart is filled with in the signal scenarios
MaxSeries == 4

\* the prices of a series; 100 -> 101 -> 103 is a rise of 3% in two steps,
\* 100 -> 101 -> 103 -> 105 one of 5% in three, 112 -> 100 a fall of more than 10%
Prices == {100, 101, 103, 105, 112}
\* the prices of a sample that continues a series; 100 -> 103 -> 104 is a rise
\* of 4% in two steps
ContinuingPrices == Prices \cup {104}
\* the spacings (minutes) of a series: 2 (four samples within 8 minutes),
\* 20 (one step already lasts 20 minutes)
Spacings == {2, 20}

-----------------------------------------------------------------------------
(* Exact arithmetic on fractions *)

RECURSIVE GCD(_, _)
GCD(a, b) == IF b = 0 THEN a ELSE GCD(b, a % b)

LCM(a, b) == (a \div GCD(a, b)) * b

RECURSIVE LCMOf(_)
LCMOf(S) == IF S = {} THEN 1 ELSE LET x == CHOOSE y \in S : TRUE IN LCM(x, LCMOf(S \ {x}))

\* the denominator every fraction of the model is expressed in
Scale == LCMOf(Prices \cup ContinuingPrices \cup {100})

Abs(x) == IF x < 0 THEN -x ELSE x
Min(a, b) == IF a <= b THEN a ELSE b
Max(a, b) == IF a >= b THEN a ELSE b
Sign(x) == IF x > 0 THEN 1 ELSE IF x < 0 THEN -1 ELSE 0

-----------------------------------------------------------------------------
(* extended_pool.py: ticks *)

\* signal_end_timestamp = None, trends = None
NoTimestamp == -1

Tick(t, p) == [timestamp |-> t, price |-> p]

\* a storage slot that holds None
NoTick == Tick(NoTimestamp, 0)

-----------------------------------------------------------------------------
(***************************************************************************)
(* extended_pool.py: CircularList.  items is the physical storage (index   *)
(* p of the Python list is items[p + 1]); beginning and size are the       *)
(* fields of the same name.                                                *)
(***************************************************************************)

CircularList(capacity) ==
    [items |-> [p \in 1..capacity |-> NoTick], beginning |-> 0, size |-> 0,
     capacity |-> capacity]

_get_index(cl, shift) ==
    LET base == IF shift >= 0 THEN cl.beginning ELSE cl.beginning + cl.size
    IN  (base + shift) % cl.capacity

_is_integral(cl) == cl.beginning + cl.size <= cl.capacity

\* __getitem__ with an int: [ret, err]
getitem(cl, index) ==
    IF ~(-cl.size < index /\ index < cl.size)
    THEN [ret |-> NoTick, err |-> "IndexError"]
    ELSE [ret |-> cl.items[_get_index(cl, index) + 1], err |-> "None"]

\* a bound of a slice that is left out (None)
NoIndex == -1

\* list.__getitem__(slice(start, stop)) on the storage, 0 <= start, stop <= capacity
list_slice(items, start, stop) ==
    IF start < stop THEN SubSeq(items, start + 1, stop) ELSE <<>>

\* __getitem__ with a slice, a bound being an index >= 0 or NoIndex: [ret, err]
getslice(cl, index_start, index_stop) ==
    LET start == IF index_start # NoIndex THEN index_start ELSE 0
        stop == IF index_stop # NoIndex THEN index_stop ELSE cl.size
        first == _get_index(cl, start)
        last == _get_index(cl, stop)
    IN  IF start > stop \/ start < 0 \/ stop > cl.size
        THEN [ret |-> <<>>, err |-> "IndexError"]
        ELSE IF _is_integral(cl) \/ last > first \/ index_start = index_stop
        THEN [ret |-> list_slice(cl.items, first, last), err |-> "None"]
        ELSE [ret |-> list_slice(cl.items, first, cl.capacity)
                      \o list_slice(cl.items, 0, last),
              err |-> "None"]

\* __iter__: the logical content, oldest first
iter(cl) ==
    SubSeq([i \in 1..cl.size |-> cl.items[_get_index(cl, i - 1) + 1]], 1, cl.size)

\* append without line 119: the beginning stays where it is
append_keeping_beginning(cl, item) ==
    LET index == _get_index(cl, cl.size)
    IN  [cl EXCEPT !.items[index + 1] = item,
                   !.size = IF cl.size < cl.capacity THEN cl.size + 1 ELSE cl.size]

append(cl, item) ==
    LET index == _get_index(cl, cl.size)
    IN  [cl EXCEPT !.items[index + 1] = item,
                   !.beginning = IF cl.size < cl.capacity THEN cl.beginning
                                 ELSE _get_index(cl, 1),
                   !.size = IF cl.size < cl.capacity THEN cl.size + 1 ELSE cl.size]

RECURSIVE extend(_, _)
extend(cl, iterable) ==
    IF iterable = <<>> THEN cl
    ELSE extend(append(cl, Head(iterable)), Tail(iterable))

\* set(index, iterable): [cl, err]
set(cl, index, iterable) ==
    IF ~(0 <= index /\ index <= cl.size)
    THEN [cl |-> cl, err |-> "IndexError"]
    ELSE IF index + Len(iterable) >= cl.size
         THEN [cl |-> extend([cl EXCEPT !.size = index], iterable), err |-> "None"]
         ELSE [cl |-> cl, err |-> "IndexError"]

-----------------------------------------------------------------------------
(* extended_pool.py: Chart *)

\* Chart.__init__; CHART_MAX_TICKS is the capacity of its ring buffer
CHART_MAX_TICKS == Capacity

Chart == [ticks |-> CircularList(CHART_MAX_TICKS), trends |-> <<>>,
          signal_end_timestamp |-> NoTimestamp]

\* line 226-232 with > for >=: a sample of the same timestamp is not one to
\* replace
FirstIndex_strict(cl, ticks) ==
    LET hits == {i \in 0..(cl.size - 1) :
                    ticks[1].timestamp > getitem(cl, i).ret.timestamp}
    IN  IF hits = {} THEN cl.size
        ELSE CHOOSE i \in hits : \A j \in hits : i <= j

\* line 226-232: the first logical index i whose sample the batch's first
\* sample is not older than, len(self.ticks) when there is none
FirstIndex(cl, ticks) ==
    LET hits == {i \in 0..(cl.size - 1) :
                    ticks[1].timestamp >= getitem(cl, i).ret.timestamp}
    IN  IF hits = {} THEN cl.size
        ELSE CHOOSE i \in hits : \A j \in hits : i <= j

\* Chart.update(ticks), a single tick being the batch of that one tick: [chart, err]
Chart_update(c, ticks) ==
    IF ticks = <<>> THEN [chart |-> c, err |-> "None"]
    ELSE LET r == set(c.ticks, FirstIndex(c.ticks, ticks), ticks)
         IN  [chart |-> [c EXCEPT !.ticks = r.cl], err |-> r.err]

-----------------------------------------------------------------------------
(***************************************************************************)
(* extended_pool.py: Trend.  change is in 1/Scale units; beginning and end *)
(* are logical indices of the chart, from 0.                               *)
(***************************************************************************)

TICK_MERGE_MAXIMUM_CHANGE == 5 * (Scale \div 100)

Trend(change, beginning, end) == [change |-> change, beginning |-> beginning, end |-> end]

\* a sum that keeps the end of the first trend
Trend_add_keeping_end(a, b) == Trend(a.change + b.change, a.beginning, a.end)

\* Trend.__add__
Trend_add(a, b) == Trend(a.change + b.change, a.beginning, b.end)

\* a.change * b.change >= 0; the sign of a product is the product of the signs
have_same_trend(a, b) == Sign(a.change) * Sign(b.change) >= 0

\* can_be_merged for rises alone: a dip within a rise is noise, a bounce
\* within a fall is not
can_be_merged_in_rise(a, b, c) ==
    IF a.change > 0 /\ have_same_trend(a, c) /\ ~have_same_trend(a, b)
    THEN /\ Abs(b.change) <= Min(Abs(a.change), Abs(c.change))
         /\ Abs(b.change) <= TICK_MERGE_MAXIMUM_CHANGE
    ELSE FALSE

\* line 161-165
can_be_merged(a, b, c) ==
    IF have_same_trend(a, c) /\ ~have_same_trend(a, b)
    THEN /\ Abs(b.change) <= Min(Abs(a.change), Abs(c.change))
         /\ Abs(b.change) <= TICK_MERGE_MAXIMUM_CHANGE
    ELSE FALSE

\* deque.remove(x): drops the first element equal to x
RECURSIVE remove(_, _)
remove(s, x) ==
    IF s = <<>> THEN s
    ELSE IF Head(s) = x THEN Tail(s)
    ELSE <<Head(s)>> \o remove(Tail(s), x)

\* deque.insert(i, x), i counted from 0
insert(s, i, x) ==
    LET k == Min(i, Len(s))
    IN  SubSeq(s, 1, k) \o <<x>> \o SubSeq(s, k + 1, Len(s))

\* line 237-245: the fractional change of every sample against the one before it
changes(prices) ==
    SubSeq([i \in 1..Len(prices) |->
        IF i = 1 THEN 0
        ELSE IF prices[i - 1] # 0
             THEN (prices[i] - prices[i - 1]) * (Scale \div prices[i - 1])
             ELSE 0], 1, Len(prices))

\* line 247: one unit trend per sample
unit_trends(prices) ==
    CHOOSE trends \in
        {SubSeq([i \in 1..Len(prices) |->
                    Trend(c[i], IF i - 1 # 0 THEN i - 2 ELSE 0, i - 1)], 1, Len(prices)) :
            c \in {changes(prices)}} : TRUE

\* line 249-275: the merge loop, i being the cursor (from 0)
RECURSIVE merge_loop(_, _)
merge_loop(trends, i) ==
    IF ~(i + 2 < Len(trends)) THEN trends
    ELSE LET t1 == trends[i + 1]
             t2 == trends[i + 2]
             t3 == trends[i + 3]
         IN  IF have_same_trend(t1, t2)
             THEN CHOOSE r \in
                    {merge_loop(merged, Max(i - 2, 0)) :
                        merged \in {insert(remove(remove(trends, t1), t2), i,
                                           Trend_add(t1, t2))}} : TRUE
             ELSE IF have_same_trend(t2, t3)
             THEN CHOOSE r \in
                    {merge_loop(merged, Max(i - 2, 0)) :
                        merged \in {insert(remove(remove(trends, t2), t3), i + 1,
                                           Trend_add(t2, t3))}} : TRUE
             ELSE IF can_be_merged(t1, t2, t3)
             THEN CHOOSE r \in
                    {merge_loop(merged, Max(i - 2, 0)) :
                        merged \in {insert(remove(remove(remove(trends, t1), t2), t3), i,
                                           Trend_add(Trend_add(t1, t2), t3))}} : TRUE
             ELSE merge_loop(trends, i + 1)

\* line 250-275 with the cursor left where it is when nothing is merged
merge_step_staying(trends, i) ==
    LET t1 == trends[i + 1]
        t2 == trends[i + 2]
        t3 == trends[i + 3]
    IN  IF have_same_trend(t1, t2)
        THEN [trends |-> insert(remove(remove(trends, t1), t2), i, Trend_add(t1, t2)),
              i |-> Max(i - 2, 0)]
        ELSE IF have_same_trend(t2, t3)
        THEN [trends |-> insert(remove(remove(trends, t2), t3), i + 1, Trend_add(t2, t3)),
              i |-> Max(i - 2, 0)]
        ELSE IF can_be_merged(t1, t2, t3)
        THEN [trends |-> insert(remove(remove(remove(trends, t1), t2), t3), i,
                                Trend_add(Trend_add(t1, t2), t3)),
              i |-> Max(i - 2, 0)]
        ELSE [trends |-> trends, i |-> i]

\* line 250-275: one pass of the body of the merge loop, from the trends and
\* the cursor i to the trends and the cursor after it
merge_step(trends, i) ==
    LET t1 == trends[i + 1]
        t2 == trends[i + 2]
        t3 == trends[i + 3]
    IN  IF have_same_trend(t1, t2)
        THEN [trends |-> insert(remove(remove(trends, t1), t2), i, Trend_add(t1, t2)),
              i |-> Max(i - 2, 0)]
        ELSE IF have_same_trend(t2, t3)
        THEN [trends |-> insert(remove(remove(trends, t2), t3), i + 1, Trend_add(t2, t3)),
              i |-> Max(i - 2, 0)]
        ELSE IF can_be_merged(t1, t2, t3)
        THEN [trends |-> insert(remove(remove(remove(trends, t1), t2), t3), i,
                                Trend_add(Trend_add(t1, t2), t3)),
              i |-> Max(i - 2, 0)]
        ELSE [trends |-> trends, i |-> i + 1]

\* line 237: the prices of the retained samples, oldest first
prices(c) ==
    SubSeq([i \in 1..c.ticks.size |-> getitem(c.ticks, i - 1).ret.price], 1, c.ticks.size)

\* Chart._construct_segments: the value self.trends gets
_construct_segments(c) ==
    CHOOSE r \in {merge_loop(trends, 0) :
                    trends \in {unit_trends(p) : p \in {prices(c)}}} : TRUE

-----------------------------------------------------------------------------
(***************************************************************************)
(* extended_pool.py: Pattern and the signal catalog.  min_change is in     *)
(* percent; a duration of 0 stands for None (both are falsy in the test    *)
(* "if self.min_duration and ...").                                        *)
(***************************************************************************)

_fraction(percent) == percent * (Scale \div 100)

Pattern(min_change, min_duration, max_duration) ==
    [min_change |-> _fraction(min_change), min_duration |-> min_duration,
     max_duration |-> max_duration]

\* Pattern.match without its test for a falling pattern
match_rising_only(p, trend, ticks) ==
    IF trend.change >= p.min_change /\ p.min_change >= 0
    THEN LET duration == getitem(ticks, trend.end).ret.timestamp
                         - getitem(ticks, trend.beginning).ret.timestamp
         IN  IF p.min_duration # 0 /\ duration < p.min_duration THEN FALSE
             ELSE IF p.max_duration # 0 /\ duration > p.max_duration THEN FALSE
             ELSE TRUE
    ELSE FALSE

\* Pattern.match(trend, ticks)
match(p, trend, ticks) ==
    IF \/ (trend.change >= p.min_change /\ p.min_change >= 0)
       \/ (0 >= p.min_change /\ p.min_change >= trend.change)
    THEN LET duration == getitem(ticks, trend.end).ret.timestamp
                         - getitem(ticks, trend.beginning).ret.timestamp
         IN  IF p.min_duration # 0 /\ duration < p.min_duration THEN FALSE
             ELSE IF p.max_duration # 0 /\ duration > p.max_duration THEN FALSE
             ELSE TRUE
    ELSE FALSE

_UPTREND == <<Pattern(5, 20, 0)>>
_DUMP == <<Pattern(-5, 0, 10)>>
_DOWNTREND_REVERSAL == <<Pattern(-10, 20, 0), Pattern(3, 0, 0)>>

PATTERNS == <<_DUMP, _UPTREND, _DOWNTREND_REVERSAL>>

\* the names of the catalog's entries, in the order of PATTERNS
SIGNALS == <<"DUMP", "UPTREND", "DOWNTREND_REVERSAL">>

\* line 289: the trailing len(pattern) trends
last_trends(trends, pattern) ==
    [j \in 1..Len(pattern) |-> trends[Len(trends) - Len(pattern) + j]]

\* line 291-294: every pattern of the signal matches its trend
all_match(pattern, trends, ticks) ==
    \A j \in 1..Len(pattern) : match(pattern[j], last_trends(trends, pattern)[j], ticks)

\* the longest pattern, max(map(len, PATTERNS))
MaxPatternLen == CHOOSE n \in {Len(PATTERNS[k]) : k \in 1..Len(PATTERNS)} :
                    \A k \in 1..Len(PATTERNS) : Len(PATTERNS[k]) <= n

\* what a has_signal call matched: the catalog entry and the timestamps the
\* matched trends begin and end at
Match(signal, first_timestamp, end_timestamp) ==
    [signal |-> signal, first_timestamp |-> first_timestamp,
     end_timestamp |-> end_timestamp]

NoMatch == Match("None", NoTimestamp, NoTimestamp)

\* line 285-305, trends being self.trends as _construct_segments left it
scan_patterns(c, only_new, trends) ==
    LET c1   == [c EXCEPT !.trends = trends]
        hits == {k \in 1..Len(PATTERNS) : all_match(PATTERNS[k], trends, c.ticks)}
    IN  IF Len(trends) < MaxPatternLen \/ hits = {}
        THEN [chart |-> c1, ret |-> FALSE, err |-> "None", match |-> NoMatch]
        ELSE LET k     == CHOOSE h \in hits : \A g \in hits : h <= g
                 last  == last_trends(trends, PATTERNS[k])
                 first_timestamp == getitem(c.ticks, last[1].beginning).ret.timestamp
                 end_timestamp   == getitem(c.ticks, last[Len(last)].end).ret.timestamp
                 m     == Match(SIGNALS[k], first_timestamp, end_timestamp)
             IN  IF ~only_new
                 THEN [chart |-> c1, ret |-> TRUE, err |-> "None", match |-> m]
                 ELSE IF c.signal_end_timestamp = NoTimestamp
                 \* datetime < None
                 THEN [chart |-> c1, ret |-> FALSE, err |-> "TypeError", match |-> m]
                 ELSE IF first_timestamp < c.signal_end_timestamp
                 THEN [chart |-> c1, ret |-> FALSE, err |-> "None", match |-> m]
                 ELSE [chart |-> [c1 EXCEPT !.signal_end_timestamp = end_timestamp],
                       ret |-> TRUE, err |-> "None", match |-> m]

\* Chart.has_signal(only_new): [chart, ret, err, match]; match tells what the
\* call matched (NoMatch when it matched nothing)
has_signal(c, only_new) ==
    IF c.ticks.size <= 3
    THEN [chart |-> c, ret |-> FALSE, err |-> "None", match |-> NoMatch]
    ELSE CHOOSE r \in {scan_patterns(c, only_new, trends) :
                        trends \in {_construct_segments(c)}} : TRUE

-----------------------------------------------------------------------------
(***************************************************************************)
(* network.py: Token, DEX, Pool.  Objects live on the heap, a function     *)
(* from references to fields; a reference <<class, n, role>> names the     *)
(* object created in role `role` when the n-th provider record was         *)
(* converted.  There is one network (TON).                                 *)
(***************************************************************************)

\* the reference None
None == <<"None", 0, "None">>

\* the Chart() every Pool instance gets as the default of its chart field: the
\* default is evaluated once, in the class body, so it is one object (of
\* network.Pool and of extended_pool.Pool alike; the variable chart is the one
\* of extended_pool.Pool)
DefaultChart == "Chart()"

Token(address, ticker, name) ==
    [class |-> "Token", network |-> "TON", address |-> address, ticker |-> ticker,
     name |-> name]

\* DEX(id): name defaults to None
DEX(id) == [class |-> "DEX", id |-> id, name |-> "None"]

\* x == y as the __eq__ of x's class decides it
eq(h, x, y) ==
    IF h[x].class = "Token"
    THEN h[y].class = "Token" /\ h[x].network = h[y].network /\ h[x].address = h[y].address
    ELSE IF h[x].class = "DEX"
    THEN h[y].class = "DEX" /\ h[x].id = h[y].id
    ELSE h[y].class = "Pool" /\ h[x].network = h[y].network /\ h[x].address = h[y].address

Token_update(h, self, other) ==
    [h EXCEPT ![self].ticker = h[other].ticker, ![self].name = h[other].name]

DEX_update(h, self, other) == [h EXCEPT ![self].name = h[other].name]

\* Pool.update(other): the heap after it
Pool_update(h, self, other) ==
    LET h1 == Token_update(h, h[self].base_token, h[other].base_token)
        h2 == Token_update(h1, h1[self].quote_token, h1[other].quote_token)
        h3 == [h2 EXCEPT ![self].price_usd = h2[other].price_usd,
                         ![self].price_native = h2[other].price_native,
                         ![self].liquidity = h2[other].liquidity,
                         ![self].volume = h2[other].volume,
                         ![self].fdv = h2[other].fdv,
                         ![self].price_change = h2[other].price_change]
        h4 == DEX_update(h3, h3[self].dex, h3[other].dex)
    IN  [h4 EXCEPT ![self].creation_date = h4[other].creation_date]

\* pools_with_api.py: _dex_screener_pool_to_network_pool(p), p being the n-th
\* record converted: the objects it creates
NewObjects(n, p) ==
    LET pool == <<"Pool", n, "pool">>
        base_token == <<"Token", n, "base_token">>
        quote_token == <<"Token", n, "quote_token">>
        dex == <<"DEX", n, "dex">>
    IN  (pool :> [class |-> "Pool", network |-> "TON", address |-> p.address,
                  base_token |-> base_token, quote_token |-> quote_token,
                  price_usd |-> p.price_usd, price_native |-> p.price_native,
                  liquidity |-> p.liquidity, volume |-> p.volume, fdv |-> p.fdv,
                  price_change |-> p.price_change, dex |-> dex,
                  creation_date |-> p.creation_date, chart |-> DefaultChart])
        @@ (base_token :> Token(p.base_token.address, p.base_token.ticker,
                                 p.base_token.name))
        @@ (quote_token :> Token(p.quote_token.address, p.quote_token.ticker,
                                  p.quote_token.name))
        @@ (dex :> DEX(p.dex_id))

-----------------------------------------------------------------------------
(***************************************************************************)
(* pools.py: Pools.  A registry r has the fields pools, tokens, dexes      *)
(* (sets of references), pool_filter, repeated_pool_filter_key and, from   *)
(* PoolsWithAPI, update_counter.  An operation takes the registry and the  *)
(* heap and gives the registry and the heap after it, [registry, heap].    *)
(***************************************************************************)

\* SetWithGet.get(element): a set holds no two equal elements
SetWithGet_get(h, S, element) ==
    LET hits == {x \in S : eq(h, x, element)}
    IN  IF hits = {} THEN None ELSE CHOOSE x \in hits : TRUE

\* settings.POOL_DEFAULT_FILTER, the admission predicate: a minimum liquidity
MinLiquidity == 2
POOL_DEFAULT_FILTER(pool) == pool.liquidity >= MinLiquidity

\* self.pool_filter is set and the pool fails it
Rejected(r, h, pool) == r.pool_filter.configured /\ ~POOL_DEFAULT_FILTER(h[pool])

\* lambda x: x.volume
repeated_pool_filter_key(pool) == pool.volume

\* Pools.__init__
Pools(pool_filter, key) ==
    [pools |-> {}, tokens |-> {}, dexes |-> {}, pool_filter |-> pool_filter,
     repeated_pool_filter_key |-> key, update_counter |-> 0]

\* line 55-59, 61-65: the token in the field `field` of the pool
ensure_token(s, pool, field) ==
    LET token == s.heap[pool][field]
        existing == SetWithGet_get(s.heap, s.registry.tokens, token)
    IN  IF existing # None
        THEN [s EXCEPT !.heap = [Token_update(s.heap, existing, token)
                                    EXCEPT ![pool][field] = existing]]
        ELSE [s EXCEPT !.registry.tokens = @ \cup {token}]

\* line 67-71
ensure_dex(s, pool) ==
    LET dex == s.heap[pool].dex
        existing == SetWithGet_get(s.heap, s.registry.dexes, dex)
    IN  IF existing # None
        THEN [s EXCEPT !.heap = [DEX_update(s.heap, existing, dex)
                                    EXCEPT ![pool].dex = existing]]
        ELSE [s EXCEPT !.registry.dexes = @ \cup {dex}]

_ensure_consistent_token_and_dex_references(s, pool) ==
    ensure_dex(ensure_token(ensure_token(s, pool, "base_token"), pool, "quote_token"), pool)

_update(s, pool) ==
    LET existing == SetWithGet_get(s.heap, s.registry.pools, pool)
    IN  IF existing # None
        THEN [s EXCEPT !.heap = Pool_update(s.heap, existing, pool)]
        ELSE [s EXCEPT !.registry.pools = @ \cup {pool}]

\* the tracked pools of the same pair on the DEX of the pool
pools_with_same_token_on_dex(s, pool) ==
    {p \in s.registry.pools :
        /\ eq(s.heap, s.heap[p].base_token, s.heap[pool].base_token)
        /\ eq(s.heap, s.heap[p].quote_token, s.heap[pool].quote_token)
        /\ eq(s.heap, s.heap[p].dex, s.heap[pool].dex)}

\* line 86-89: the tracked pools the loop can stop at, the order of a set
\* being any
pools_with_same_token(s, pool) ==
    {p \in s.registry.pools :
        /\ eq(s.heap, s.heap[p].base_token, s.heap[pool].base_token)
        /\ eq(s.heap, s.heap[p].quote_token, s.heap[pool].quote_token)}

\* line 93 without line 94: the DEX set is not rebuilt
remove_pool_keeping_dexes(s, p) == [s EXCEPT !.registry.pools = @ \ {p}]

\* line 93-94
remove_pool(s, p) ==
    [s EXCEPT !.registry.pools = @ \ {p},
              !.registry.dexes = {s.heap[q].dex : q \in s.registry.pools \ {p}}]

\* line 98-99
admit(s, pool) == _update(_ensure_consistent_token_and_dex_references(s, pool), pool)

\* Pools.update(pool), pool a Pool: the outcomes it can have
Pools_update(s, pool) ==
    IF Rejected(s.registry, s.heap, pool) THEN {s}
    ELSE IF s.registry.repeated_pool_filter_key /\ pools_with_same_token(s, pool) # {}
    THEN {IF repeated_pool_filter_key(s.heap[pool]) > repeated_pool_filter_key(s.heap[p])
          THEN admit(remove_pool(s, p), pool)
          ELSE s : p \in pools_with_same_token(s, pool)}
    ELSE {admit(s, pool)}

\* Pools.apply_filter(): line 104 is overwritten by line 105, which puts the
\* DEX objects of the surviving pools in self.tokens; self.dexes is left alone
apply_filter(s) ==
    IF s.registry.pool_filter.configured
    THEN LET pools == {p \in s.registry.pools : POOL_DEFAULT_FILTER(s.heap[p])}
         IN  [s EXCEPT !.registry.pools = pools,
                       !.registry.tokens = {s.heap[p].dex : p \in pools}]
    ELSE s

\* Pools.match_pool(token, pool_filter_key), token a Token with the given
\* address and the key a field of the pool: the results it can have, a pool or
\* None.  matches is built in the order of the set; the sort is stable and
\* only made when no dedup key is configured
match_pool(s, address, pool_filter_key) ==
    LET token == <<"Token", 0, "token">>
        h == s.heap @@ (token :> Token(address, address, address))
        matches == {p \in s.registry.pools : eq(h, h[p].base_token, token)}
    IN  IF matches = {} THEN {None}
        ELSE IF ~s.registry.repeated_pool_filter_key
        THEN {p \in matches :
                \A q \in matches : h[q][pool_filter_key] <= h[p][pool_filter_key]}
        ELSE matches

\* the objects a registry reaches: what is left of the heap once the caller of
\* an operation has dropped its own references
reachable(s) ==
    s.registry.pools \cup s.registry.tokens \cup s.registry.dexes
    \cup {s.heap[p].base_token : p \in s.registry.pools}
    \cup {s.heap[p].quote_token : p \in s.registry.pools}
    \cup {s.heap[p].dex : p \in s.registry.pools}

collect(s) == [s EXCEPT !.heap = [x \in reachable(s) |-> s.heap[x]]]

-----------------------------------------------------------------------------
(***************************************************************************)
(* pools_with_api.py: PoolsWithAPI.update_using_api.  The API clients      *)
(* (api/) are outside the sources at hand: a call of theirs is an input,   *)
(* what the provider answered.                                             *)
(***************************************************************************)

CHECK_FOR_NEW_TOKENS_EVERY_UPDATE == 20
APPLY_FILTER_EVERY_UPDATE == 20

\* DEXScreenerAPI.MAX_ADDRESSES, the addresses one enrichment request takes
MAX_ADDRESSES == 2

_satisfy_after_first(r, every_update) == r.update_counter % every_update = 1

_satisfy(r, every_update) == r.update_counter % every_update = 0

make_batches(sequence, n) ==
    [b \in 1..((Len(sequence) + n - 1) \div n) |->
        SubSeq(sequence, (b - 1) * n + 1, Min(b * n, Len(sequence)))]

RECURSIVE chain(_)
chain(lists) == IF lists = <<>> THEN <<>> ELSE Head(lists) \o chain(Tail(lists))

\* Pools.update(pool) with a list for pool: "None" when it returns,
\* "AttributeError" when it raises; on_list is what the admission predicate
\* does with a list.  Past the predicate a list has no base_token for line
\* 87 or line 55 to read.
Pools_update_list(r) ==
    IF r.pool_filter.configured /\ r.pool_filter.on_list = "False" THEN "None"
    ELSE "AttributeError"

\* the orders a set can be iterated in
RECURSIVE orders(_)
orders(S) ==
    IF S = {} THEN {<<>>}
    ELSE UNION {{<<x>> \o q : q \in orders(S \ {x})} : x \in S}

\* line 91-92: the orders priority_list can have after the sort, ties
\* staying in the order the set gave
priority_lists(s) ==
    LET priority(p) == s.heap[p].volume * s.heap[p].price_change.h1
    IN  {[i \in 1..Len(q) |-> <<s.heap[q[i]].address, priority(q[i])>>] :
            q \in {o \in orders(s.registry.pools) :
                     \A i \in 2..Len(o) : priority(o[i - 1]) >= priority(o[i])}}

\* what the providers answer in one cycle: the addresses the discovery provider
\* lists for the sources TOP and TRENDING, the record the enrichment provider
\* has for an address, the requests the discovery provider has left, the
\* candles it returns for a pool, and the provider call that raises, if any
Answers(top, trending, quote, requests_left, candles, failing) ==
    [top |-> top, trending |-> trending, quote |-> quote,
     requests_left |-> requests_left, candles |-> candles, failing |-> failing]

\* line 78: the sources get_pools is called for
POOL_SOURCES == <<"TOP", "TRENDING">>

\* the API clients whose reset_request_counter() line 103-104 calls
API_CLIENTS == {"geckoterminal_api", "dex_screener_api"}

\* update_using_api(): the outcomes it can have, [registry, heap, err,
\* requested, returned, updates, fetched, resets]: the batches requested from
\* the enrichment provider, the records it returned, the arguments Pools.update
\* was called with, the addresses candles were fetched for, the clients whose
\* request counter was reset, whether apply_filter() was called, the sources
\* get_pools of the discovery provider was called for
update_using_api(s, answers) ==
    LET s1 == IF _satisfy(s.registry, APPLY_FILTER_EVERY_UPDATE) THEN apply_filter(s)
              ELSE s
        discovers == _satisfy(s.registry, CHECK_FOR_NEW_TOKENS_EVERY_UPDATE)
        addresses == IF discovers THEN answers.top \o answers.trending ELSE <<>>
        requested == make_batches(addresses, MAX_ADDRESSES)
        pools == chain([b \in 1..Len(requested) |->
                          [i \in 1..Len(requested[b]) |-> answers.quote[requested[b][i]]]])
        updates == <<[list |-> TRUE, pools |-> pools]>>
        listed == IF discovers THEN POOL_SOURCES ELSE <<>>
        err == Pools_update_list(s1.registry)
        raised(e, lst, req, ret, upd) ==
            [registry |-> s1.registry, heap |-> s1.heap, err |-> e,
             requested |-> req, returned |-> ret, updates |-> upd,
             fetched |-> <<>>, resets |-> {},
             applied |-> _satisfy(s.registry, APPLY_FILTER_EVERY_UPDATE),
             listed |-> lst]
    IN  IF discovers /\ answers.failing = "get_pools"
        THEN {raised("ProviderError", <<Head(POOL_SOURCES)>>, <<>>, <<>>, <<>>)}
        ELSE IF requested # <<>> /\ answers.failing = "dex_screener.get_pools"
        THEN {raised("ProviderError", listed, <<requested[1]>>, <<>>, <<>>)}
        ELSE IF err # "None"
        THEN {raised(err, listed, requested, pools, updates)}
        ELSE IF /\ answers.failing = "get_ohlcv"
                /\ Min(answers.requests_left, Cardinality(s1.registry.pools)) > 0
        THEN {raised("ProviderError", listed, requested, pools, updates)}
        ELSE {[registry |-> [s1.registry EXCEPT !.update_counter = @ + 1],
               heap |-> s1.heap, err |-> "None", requested |-> requested,
               returned |-> pools, updates |-> updates,
               fetched |-> [i \in 1..Min(answers.requests_left, Len(priority_list)) |->
                               priority_list[i][1]],
               resets |-> API_CLIENTS,
               applied |-> _satisfy(s.registry, APPLY_FILTER_EVERY_UPDATE),
               listed |-> listed] :
                priority_list \in priority_lists(s1)}

-----------------------------------------------------------------------------
(***************************************************************************)
(* main.py: TONSonar.send_signal_messages.  Telegram is outside the        *)
(* sources at hand: what a send reports is an input.                       *)
(***************************************************************************)

\* Status
STATUSES == {"SUCCESS", "REMOVED", "BLOCK", "EXCEPTION"}

\* line 203-211: the sends to one user, <<user, pool address, status>> in the
\* order they are made; tuples are [address, base_token, magnitude]
RECURSIVE send_to_user(_, _, _, _)
send_to_user(user_id, tuples, muted, status) ==
    IF tuples = <<>> THEN <<>>
    ELSE IF <<user_id, Head(tuples).base_token>> \in muted
    THEN send_to_user(user_id, Tail(tuples), muted, status)
    ELSE <<<<user_id, Head(tuples).address, status[user_id]>>>>
         \o (IF status[user_id] = "BLOCK" THEN <<>>
             ELSE send_to_user(user_id, Tail(tuples), muted, status))

\* line 202: the sends to the users, in the order get_user_ids gives them
RECURSIVE send_to_users(_, _, _, _)
send_to_users(user_ids, tuples, muted, status) ==
    IF user_ids = <<>> THEN <<>>
    ELSE send_to_user(Head(user_ids), tuples, muted, status)
         \o send_to_users(Tail(user_ids), tuples, muted, status)

\* send_signal_messages(): [err, attempts].  Line 195 calls p.chart.get_signal,
\* a method no Chart has: with a tracked pool the call raises AttributeError;
\* without one, tuples is empty and line 199 returns
send_signal_messages(s, us, user_ids, status) ==
    IF s.registry.pools # {}
    THEN [err |-> "AttributeError", attempts |-> <<>>]
    ELSE LET tuples == <<>>
         IN  IF tuples = <<>>
             THEN [err |-> "None", attempts |-> <<>>]
             ELSE [err |-> "None",
                   attempts |-> send_to_users(user_ids, tuples, us.muted, status)]

-----------------------------------------------------------------------------
(***************************************************************************)
(* main.py: TONSonar.buttons_mute and _parse_token.  A press is what the   *)
(* callback query carries: the payload of the button, the chat, and of the *)
(* text of the message the base-token address on its last line and the     *)
(* ticker that is its third word.                                          *)
(***************************************************************************)

\* str.lower() on the tickers of the model
lower(ticker) ==
    CASE ticker = "T1" -> "t1"
      [] ticker = "T2" -> "t2"
      [] ticker = "NEW" -> "new"
      [] ticker = "TON" -> "ton"
      [] ticker = "USDT" -> "usdt"
      [] OTHER -> ticker

\* line 269, line 253: the objects of self.pools.get_tokens() are read as
\* Tokens; an object of another class has neither address nor ticker
read_as_tokens(s) ==
    IF \E t \in s.registry.tokens : s.heap[t].class # "Token"
    THEN "AttributeError" ELSE "None"

\* line 269: the tokens with the address on the last line of the message
matches_by_address(s, token_address) ==
    {t \in s.registry.tokens : s.heap[t].address = token_address}

\* _parse_token, line 253: the tokens with the ticker, whatever the case
_parse_token(s, token_ticker) ==
    {t \in s.registry.tokens : lower(s.heap[t].ticker) = lower(token_ticker)}

\* line 285-295 for the token found: the call on self.users and the edit of
\* the message
mute(s, us, press, token) ==
    LET entry == <<press.user_id, s.heap[token].address>>
    IN  [err |-> "None", answered |-> TRUE, notice |-> FALSE, edited |-> TRUE,
         ops |-> <<<<IF press.option > 0 THEN "mute_for"
                     ELSE IF press.option # 0 THEN "mute_forever" ELSE "unmute",
                     press.user_id, s.heap[token].address>>>>,
         users |-> IF press.option # 0 THEN [us EXCEPT !.muted = @ \cup {entry}]
                   ELSE [us EXCEPT !.muted = @ \ {entry}]]

\* buttons_mute(update, context): the outcomes it can have, [err, answered,
\* notice, edited, ops, users]; matches[0] is the first match in the order of
\* the set
buttons_mute(s, us, press) ==
    IF read_as_tokens(s) # "None"
    THEN {[err |-> read_as_tokens(s), answered |-> FALSE, notice |-> FALSE,
           edited |-> FALSE, ops |-> <<>>, users |-> us]}
    ELSE LET matches == IF press.option # 0 THEN matches_by_address(s, press.address)
                        ELSE _parse_token(s, press.ticker)
         IN  IF matches = {}
             THEN {[err |-> "None", answered |-> TRUE, notice |-> TRUE,
                    edited |-> FALSE, ops |-> <<>>, users |-> us]}
             ELSE {mute(s, us, press, token) : token \in matches}

-----------------------------------------------------------------------------
(***************************************************************************)
(* main.py: pools_to_message.  A text is modelled by the number of its     *)
(* characters that clear_from_html leaves, a message by the pools whose    *)
(* block it holds and that number.                                         *)
(***************************************************************************)

\* settings.TELEGRAM_MESSAGE_MAX_WIDTH
line_width == 22
\* the characters of a value format_number, difference_to_pretty_str or the
\* signal label renders
ValueLen == 2
\* the characters of a base-token address
AddressLen == 2

\* spaces(n): ' ' * n is empty for a negative n
spaces(n) == Max(n, 0)

\* line 84-85: the line of two texts of str1, str2 characters
add_line(str1, str2) == str1 + spaces(line_width - (str1 + str2)) + str2

\* line 88-113: the lines of the block of a pool: the header (ticker/ticker;
\* no quote token of the model is the native currency), Liquidity: unless it
\* is zero, Volume:, Age: unless the creation date is unknown
lines(pool) ==
    <<add_line(AddressLen + 1 + 3, ValueLen)>>
    \o (IF pool.liquidity # 0 THEN <<add_line(10, ValueLen)>> ELSE <<>>)
    \o <<add_line(7, ValueLen)>>
    \o (IF pool.creation_date # 0 THEN <<add_line(4, ValueLen)>> ELSE <<>>)

\* '\n'.join(lines)
RECURSIVE joined(_, _)
joined(texts, separator) ==
    IF texts = <<>> THEN 0
    ELSE IF Len(texts) = 1 THEN texts[1]
    ELSE texts[1] + separator + joined(Tail(texts), separator)

\* line 115-119: the block of a pool: the lines, the row of the two links
\* ('DEX Screener', 'GeckoTerminal') and the address of the base token
block(pool) ==
    joined(lines(pool), 1) + 1 + (12 + spaces(line_width - 22) + 13) + 1 + AddressLen

\* line 67-74: None (0) for no banner, a two-sided banner otherwise
fit_prefix_or_postfix(x) == IF x = 0 THEN 0 ELSE add_line(x, x)

\* line 78-79
get_updated_message_pools(pool_message, pool) ==
    [blocks |-> Append(pool_message.blocks, pool),
     len |-> pool_message.len + (IF pool_message.len # 0 THEN 2 ELSE 0) + block(pool)]

\* line 81-82: the parts that are not empty, joined by a blank line
get_full_message(prefix, pool_message, postfix) ==
    joined(SelectSeq(<<prefix, pool_message.len, postfix>>, LAMBDA part : part # 0), 2)

\* comparison of line 121 with < for <=
fits_strictly(length, message_max_length) == length < message_max_length

\* line 121
fits(length, message_max_length) == length <= message_max_length

\* line 87-124: the loop over the pools, pool_message being the blocks so far
RECURSIVE add_pools(_, _, _, _, _)
add_pools(pools, pool_message, prefix, postfix, message_max_length) ==
    IF pools = <<>> THEN pool_message
    ELSE LET new_pool_message == get_updated_message_pools(pool_message, Head(pools))
         IN  IF fits(get_full_message(prefix, new_pool_message, postfix),
                     message_max_length)
             THEN add_pools(Tail(pools), new_pool_message, prefix, postfix,
                            message_max_length)
             ELSE pool_message

\* pools_to_message(pools, signal, prefix, postfix, line_width,
\* message_max_length): the pools whose block the message holds and the
\* stripped length of the message
pools_to_message(pools, prefix, postfix, message_max_length) ==
    LET pool_message == add_pools(pools, [blocks |-> <<>>, len |-> 0],
                                  fit_prefix_or_postfix(prefix),
                                  fit_prefix_or_postfix(postfix), message_max_length)
    IN  [blocks |-> pool_message.blocks,
         len |-> get_full_message(fit_prefix_or_postfix(prefix), pool_message,
                                  fit_prefix_or_postfix(postfix))]

-----------------------------------------------------------------------------
(***************************************************************************)
(* The inputs of the chart scenarios                                       *)
(***************************************************************************)

\* the sequences of n samples with strictly increasing timestamps in T and prices in P
RECURSIVE TickSeqs(_, _, _)
TickSeqs(T, P, n) ==
    IF n = 0 THEN {<<>>}
    ELSE {Append(x[1], Tick(x[2], x[3])) :
            x \in {y \in TickSeqs(T, P, n - 1) \X T \X P :
                     y[1] = <<>> \/ y[1][Len(y[1])].timestamp < y[2]}}

\* the prices of the update scenarios: one price per batch, so that the samples
\* of a batch can be told from the samples they replace
UpdatePrices == {100, 101}

\* the batches of the update scenarios: time-ordered, of 1..MaxBatch samples
Batches ==
    UNION {TickSeqs(0..MaxTime, {p}, n) : n \in 1..MaxBatch, p \in UpdatePrices}

\* the series of the signal scenarios: n equally spaced samples from minute 0
Series ==
    UNION {{[i \in 1..n |-> Tick((i - 1) * d, ps[i])] : ps \in [1..n -> Prices]} :
            n \in 1..MaxSeries, d \in Spacings}

\* the sample that continues a chart at the spacing of its last two samples
\* (at any spacing when it holds one sample)
NextTicks(c) ==
    LET s == iter(c.ticks)
        n == Len(s)
        D == IF n >= 2 THEN {s[n].timestamp - s[n - 1].timestamp} ELSE Spacings
    IN  {Tick(s[n].timestamp + d, p) : d \in D, p \in ContinuingPrices}

\* no call was made on the chart yet; again: the call repeats the update
\* made just before, which returned; trends and i: the local variables of a
\* _construct_segments call under way
NoCall == [op |-> "init", ticks |-> <<>>, only_new |-> FALSE, pre |-> Chart,
           ret |-> FALSE, err |-> "None", match |-> NoMatch, asked |-> NoMatch,
           start |-> NoIndex, stop |-> NoIndex, items |-> <<>>, again |-> FALSE,
           trends |-> <<>>, i |-> 0]

\* what the latest has_signal(only_new=True) call matched, the call just made included
Asked == IF call.op = "has_signal" /\ call.only_new THEN call.match ELSE call.asked

-----------------------------------------------------------------------------
(***************************************************************************)
(* The inputs of the registry and of the main loop                         *)
(***************************************************************************)

\* the pools the providers know.  A and B trade the same pair on two DEXes,
\* C another pair; the tokens and the DEX of a pool never change
PoolAddresses == {"A", "B", "C"}
BaseOf(address) == IF address = "C" THEN "T2" ELSE "T1"
DexOf(address) == IF address = "B" THEN "D2" ELSE "D1"
\* the pool D trades the base token of A against another token
QuoteOf(address) == IF address = "D" THEN "USDT" ELSE "TON"

\* the values a figure of a record takes
Figures == {1, 2}

\* the ticker and the name the provider gives a base token: they change with
\* the other figures
TickerOf(address, other) == IF other = 1 THEN BaseOf(address) ELSE "NEW"

\* a record of the enrichment provider (DEXScreenerPool); other stands for the
\* figures the registry only stores
Record(address, volume, liquidity, other) ==
    [address |-> address,
     base_token |-> [address |-> BaseOf(address), ticker |-> TickerOf(address, other),
                     name |-> TickerOf(address, other)],
     quote_token |-> [address |-> QuoteOf(address), ticker |-> QuoteOf(address),
                      name |-> QuoteOf(address)],
     dex_id |-> DexOf(address),
     price_usd |-> other, price_native |-> other, liquidity |-> liquidity,
     volume |-> volume, fdv |-> other,
     price_change |-> [m5 |-> other, h1 |-> other, h6 |-> other, h24 |-> other],
     creation_date |-> other]

\* the records Pools.update is called with; of a record with the lower
\* liquidity, the one the admission predicate rejects, one is enough
Records ==
    {Record(a, v, 2, o) : a \in PoolAddresses, v \in Figures, o \in Figures}
    \cup {Record(a, 1, 1, 1) : a \in PoolAddresses}

\* the scalar fields of a pool
Scalars == {"price_usd", "price_native", "liquidity", "volume", "fdv", "price_change",
            "creation_date"}

\* Pools(pool_filter=..., repeated_pool_filter_key=...): the predicate is not
\* given, or is given and raises on a list, or answers False, True for one
NoFilter == [configured |-> FALSE, on_list |-> "True"]
Filters == {[configured |-> TRUE, on_list |-> o] : o \in {"AttributeError", "False", "True"}}

\* the Users object: no user, a user, a user who muted the token T1
UserRegistries ==
    {[user_ids |-> {}, muted |-> {}], [user_ids |-> {1}, muted |-> {}],
     [user_ids |-> {1}, muted |-> {<<1, "T1">>}]}

\* the heap without objects
NoObjects == [x \in {} |-> None]

\* the operation just made: its name and argument, the state before it and
\* what it did outside the registry: the batches requested from the enrichment
\* provider and the records returned, the arguments of Pools.update, the pools
\* candles were fetched for and the candles, the <<user, pool address>> pairs
\* a send of an alert was attempted for, the users a send reported BLOCK for;
\* base_token is what the pool given to Pools.update refers to after the call,
\* resets the API clients whose request counter was reset, applied whether
\* apply_filter() was called in the cycle, listed the sources the discovery
\* provider was asked for, attempts the sends
\* of send_signal_messages in their order, <<user, pool address, status>>;
\* of buttons_mute: the query was answered, the private notice sent, the
\* message edited, the calls made on self.users; message what
\* pools_to_message returned
NoEvent == [op |-> "init", arg |-> <<>>, pool |-> None, base_token |-> None,
            key |-> "None", ret |-> None,
            pre |-> [registry |-> Pools(NoFilter, FALSE), heap |-> NoObjects],
            pre_chart |-> Chart, err |-> "None", requested |-> <<>>, returned |-> <<>>,
            updates |-> <<>>,
            fetched |-> <<>>, candles |-> <<>>, sends |-> {}, blocked |-> {},
            resets |-> {}, applied |-> FALSE, listed |-> <<>>, attempts |-> <<>>,
            answered |-> FALSE, notice |-> FALSE, edited |-> FALSE, ops |-> <<>>,
            message |-> [blocks |-> <<>>, len |-> 0]]

\* the registry and the heap
state == [registry |-> registry, heap |-> heap]

-----------------------------------------------------------------------------
(***************************************************************************)
(* The chart, its update: SpecChart                                        *)
(***************************************************************************)

\* TONSonar.__init__: main.py sets the admission predicate of settings and the
\* key volume
InitBot ==
    /\ registry \in {Pools(f, TRUE) : f \in Filters}
    /\ heap = NoObjects
    /\ created = 0
    /\ users \in UserRegistries
    /\ running = TRUE
    /\ event = NoEvent

\* Chart()
InitChart ==
    /\ chart = Chart
    /\ call = NoCall

\* a chart by itself: the bot as main.py sets it up, idle
InitChartAlone ==
    /\ InitChart
    /\ registry = Pools([configured |-> TRUE, on_list |-> "AttributeError"], TRUE)
    /\ heap = NoObjects
    /\ created = 0
    /\ users = [user_ids |-> {}, muted |-> {}]
    /\ running = TRUE
    /\ event = NoEvent

\* chart.update(ticks) is called and returns or raises
DoUpdate(ticks) ==
    \E r \in {Chart_update(chart, ticks)} :
        /\ chart' = r.chart
        /\ call' = [NoCall EXCEPT !.op = "update", !.ticks = ticks, !.pre = chart,
                                  !.err = r.err, !.asked = Asked,
                                  !.again = /\ call.op = "update"
                                            /\ call.err = "None"
                                            /\ call.ticks = ticks]

\* chart.has_signal(only_new) is called and returns or raises
DoHasSignal(only_new) ==
    \E r \in {has_signal(chart, only_new)} :
        /\ chart' = r.chart
        /\ call' = [NoCall EXCEPT !.op = "has_signal", !.only_new = only_new,
                                  !.pre = chart, !.ret = r.ret, !.err = r.err,
                                  !.match = r.match, !.asked = Asked]

UpdateBatch ==
    /\ \E ticks \in Batches : DoUpdate(ticks)
    /\ UNCHANGED botVars

NextChart == UpdateBatch

SpecChart == InitChartAlone /\ [][NextChart]_vars

-----------------------------------------------------------------------------
(***************************************************************************)
(* The chart, filled with a price series and asked for signals: SpecSignal *)
(***************************************************************************)

\* a fresh chart is filled with a series
FillSeries ==
    /\ chart.ticks.size = 0
    /\ \E ticks \in Series : DoUpdate(ticks)
    /\ UNCHANGED botVars

\* the trailing trends matched a signal of the catalog in the has_signal(only_new=True)
\* call just made
Matched == call.op = "has_signal" /\ call.only_new /\ call.match # NoMatch

\* after a match, the newest sample alone is handed to update
UpdateNewest ==
    /\ Matched
    /\ \E t \in NextTicks(chart) :
        /\ t.timestamp <= MaxSeries * (t.timestamp - iter(chart.ticks)[chart.ticks.size].timestamp)
        /\ DoUpdate(<<t>>)
    /\ UNCHANGED botVars

\* after a match, the retained samples are handed to update again, followed by
\* a newer one
UpdateRestated ==
    /\ Matched
    /\ \E t \in NextTicks(chart) :
        /\ t.timestamp <= MaxSeries * (t.timestamp - iter(chart.ticks)[chart.ticks.size].timestamp)
        /\ DoUpdate(Append(iter(chart.ticks), t))
    /\ UNCHANGED botVars

HasSignal ==
    /\ \E only_new \in BOOLEAN : DoHasSignal(only_new)
    /\ UNCHANGED botVars

NextSignal == FillSeries \/ UpdateNewest \/ UpdateRestated \/ HasSignal

SpecSignal == InitChartAlone /\ [][NextSignal]_vars

-----------------------------------------------------------------------------
(***************************************************************************)
(* Chart._construct_segments pass by pass of its merge loop: SpecLoop      *)
(***************************************************************************)

\* line 237-248: _construct_segments() is called on a chart and reaches the loop
EnterLoop ==
    /\ call.op = "update"
    /\ chart.ticks.size > 0
    /\ call' = [NoCall EXCEPT !.op = "_construct_segments", !.pre = chart,
                              !.trends = unit_trends(prices(chart)), !.i = 0]
    /\ UNCHANGED <<chart, botVars>>

\* line 250-275: the loop test holds, one pass of the body
LoopPass ==
    /\ call.op = "_construct_segments"
    /\ call.i + 2 < Len(call.trends)
    /\ \E r \in {merge_step(call.trends, call.i)} :
        call' = [call EXCEPT !.trends = r.trends, !.i = r.i]
    /\ UNCHANGED <<chart, botVars>>

\* line 250, 277: the loop test fails, self.trends is assigned and the call
\* returns
LeaveLoop ==
    /\ call.op = "_construct_segments"
    /\ ~(call.i + 2 < Len(call.trends))
    /\ chart' = [chart EXCEPT !.trends = call.trends]
    /\ call' = [call EXCEPT !.op = "segments"]
    /\ UNCHANGED botVars

NextLoop == FillSeries \/ EnterLoop \/ LoopPass \/ LeaveLoop

\* a call under way goes on: the single task of the program runs it
SpecLoop ==
    /\ InitChartAlone
    /\ [][NextLoop]_vars
    /\ WF_vars(LoopPass)
    /\ WF_vars(LeaveLoop)

-----------------------------------------------------------------------------
(***************************************************************************)
(* The chart filled to its capacity and updated: SpecRepeat                *)
(***************************************************************************)

\* the series an empty chart is filled to its capacity with: its samples are
\* all newer than the samples of OlderBatches
FullSeries ==
    {[i \in 1..Capacity |-> Tick(MaxTime + i, 100)]}

\* chart.update(series) on the empty chart
FillChart ==
    /\ call.op = "init"
    /\ \E ticks \in FullSeries : DoUpdate(ticks)
    /\ UNCHANGED botVars

\* the batches of Batches at the price that FullSeries does not have
OlderBatches == {ticks \in Batches : ticks[1].price = 101}

\* chart.update(batch)
UpdateOlder ==
    /\ \E ticks \in OlderBatches : DoUpdate(ticks)
    /\ UNCHANGED botVars

NextRepeat == FillChart \/ UpdateOlder

SpecRepeat == InitChartAlone /\ [][NextRepeat]_vars

-----------------------------------------------------------------------------
(***************************************************************************)
(* The ring buffer filled by append alone: SpecAppend                      *)
(***************************************************************************)

\* most items appended beyond the capacity
MaxExtra == 2

\* ticks.append(item) on the ring buffer of a chart, empty at first; the items
\* are numbered by their timestamps; call.ticks is what was appended so far
AppendItem ==
    /\ Len(call.ticks) < Capacity + MaxExtra
    /\ \E price \in UpdatePrices :
        \E item \in {Tick(Len(call.ticks), price)} :
            /\ chart' = [chart EXCEPT !.ticks = append(chart.ticks, item)]
            /\ call' = [NoCall EXCEPT !.op = "append", !.ticks = call.ticks \o <<item>>,
                                      !.pre = chart]
    /\ UNCHANGED botVars

SpecAppend == InitChartAlone /\ [][AppendItem]_vars

-----------------------------------------------------------------------------
(***************************************************************************)
(* The ring buffer under append, extend, set and slicing: SpecList         *)
(***************************************************************************)

\* the n items made after the first `created`, numbered by their timestamps
NewItems(n) == [i \in 1..n |-> Tick(created + i - 1, 100)]

\* ticks.extend(iterable), of one item as append does it
ListExtend ==
    /\ \E n \in 1..MaxBatch :
        /\ created + n <= Capacity + MaxExtra
        /\ chart' = [chart EXCEPT !.ticks = extend(chart.ticks, NewItems(n))]
        /\ call' = [NoCall EXCEPT !.op = "extend", !.ticks = NewItems(n), !.pre = chart]
        /\ created' = created + n
    /\ UNCHANGED <<registry, heap, users, running, event>>

\* ticks.set(index, iterable) returns or raises
ListSet ==
    /\ \E index \in 0..chart.ticks.size, n \in 0..MaxBatch :
        /\ created + n <= Capacity + MaxExtra
        /\ \E r \in {set(chart.ticks, index, NewItems(n))} :
            /\ chart' = [chart EXCEPT !.ticks = r.cl]
            /\ call' = [NoCall EXCEPT !.op = "set", !.start = index, !.ticks = NewItems(n),
                                      !.pre = chart, !.err = r.err]
        /\ created' = created + n
    /\ UNCHANGED <<registry, heap, users, running, event>>

\* the bounds of a slice within the content, given or left out
SliceBounds ==
    {b \in (0..chart.ticks.size \cup {NoIndex}) \X (0..chart.ticks.size \cup {NoIndex}) :
        (b[1] # NoIndex /\ b[2] # NoIndex) => b[1] <= b[2]}

\* ticks[start:stop]
ListSlice ==
    /\ \E b \in SliceBounds :
        \E r \in {getslice(chart.ticks, b[1], b[2])} :
            call' = [NoCall EXCEPT !.op = "slice", !.start = b[1], !.stop = b[2],
                                   !.pre = chart, !.items = r.ret, !.err = r.err]
    /\ UNCHANGED <<chart, registry, heap, created, users, running, event>>

NextList == ListExtend \/ ListSet \/ ListSlice

SpecList == InitChartAlone /\ [][NextList]_vars

-----------------------------------------------------------------------------
(***************************************************************************)
(* The registry, fed pool by pool: SpecRegistry                            *)
(***************************************************************************)

\* longest sequence of records converted into objects
MaxRecords == 3

\* Pools(...) with any configuration; what the predicate does with a list
\* plays no part in these operations
InitRegistry ==
    /\ InitChart
    /\ registry \in {Pools(f, key) :
                        f \in {NoFilter, [configured |-> TRUE, on_list |-> "False"]},
                        key \in BOOLEAN}
    /\ heap = NoObjects
    /\ created = 0
    /\ users = [user_ids |-> {}, muted |-> {}]
    /\ running = TRUE
    /\ event = NoEvent

\* a record of P is converted into a Pool and Pools.update is called with it
UpdateWith(P) ==
    /\ running
    /\ created < MaxRecords
    /\ \E p \in P :
        \E s \in Pools_update([registry |-> registry,
                               heap |-> heap @@ NewObjects(created + 1, p)],
                              <<"Pool", created + 1, "pool">>) :
            /\ registry' = s.registry
            /\ heap' = collect(s).heap
            /\ event' = [NoEvent EXCEPT !.op = "update", !.arg = p,
                                        !.pool = <<"Pool", created + 1, "pool">>,
                                        !.base_token =
                                            s.heap[<<"Pool", created + 1, "pool">>].base_token,
                                        !.pre = state, !.pre_chart = chart]
    /\ created' = created + 1
    /\ UNCHANGED <<chart, call, users, running>>

Update == UpdateWith(Records)

\* Pools.apply_filter() is called
ApplyFilter ==
    /\ \E s \in {collect(apply_filter(state))} :
        /\ registry' = s.registry
        /\ heap' = s.heap
    /\ event' = [NoEvent EXCEPT !.op = "apply_filter", !.pre = state, !.pre_chart = chart]
    /\ UNCHANGED <<chart, call, created, users, running>>

NextRegistry == Update \/ ApplyFilter

SpecRegistry == InitRegistry /\ [][NextRegistry]_vars

-----------------------------------------------------------------------------
(***************************************************************************)
(* pools.py: Pools.match_pool on a registry whose pools share base tokens: *)
(* SpecMatch                                                               *)
(***************************************************************************)

\* the pools registered: A and D have the base token T1, C has T2
MatchRecords ==
    {Record(a, v, l, 1) : a \in {"A", "C", "D"}, v \in Figures, l \in {2, 3}}

\* the tokens asked for, T3 being in no pool; the keys a pool is ranked by
MatchTokens == {"T1", "T2", "T3"}
MatchKeys == {"volume", "liquidity"}

Register == UpdateWith(MatchRecords)

\* Pools.match_pool(token, pool_filter_key) is called
MatchPool ==
    /\ \E address \in MatchTokens, pool_filter_key \in MatchKeys :
        \E ret \in match_pool(state, address, pool_filter_key) :
            event' = [NoEvent EXCEPT !.op = "match_pool", !.arg = address,
                                     !.key = pool_filter_key, !.ret = ret,
                                     !.pre = state, !.pre_chart = chart]
    /\ UNCHANGED <<registry, heap, chart, call, created, users, running>>

NextMatch == Register \/ MatchPool

SpecMatch == InitRegistry /\ [][NextMatch]_vars

-----------------------------------------------------------------------------
(***************************************************************************)
(* main.py: the main loop of TONSonar, its registry also fed pool by pool  *)
(* and the chart of its pools filled: SpecBot                              *)
(***************************************************************************)

\* most cycles of the main loop
MaxCycles == 3
\* most requests the discovery provider has left in a cycle
MaxBudget == 2

\* the records Pools.update is called with besides the cycles
TrackedRecords == {Record(a, v, 2, 1) : a \in {"A", "C"}, v \in Figures}

\* the series the chart of the pools is filled with: the last step of the
\* second is an UPTREND
FeedSeries ==
    {[i \in 1..4 |-> Tick((i - 1) * 20, ps[i])] :
        ps \in {<<100, 101, 103, 105>>, <<100, 101, 103, 112>>}}

\* what the discovery provider lists for TOP, for TRENDING
TopLists == {<<>>, <<"A", "C">>}
TrendingLists == {<<>>, <<"B">>}
\* what the enrichment provider has for the pools
Quotes == {[a \in PoolAddresses |-> Record(a, 2, 2, 2)]}
\* the candles the discovery provider returns for a pool
Candles == {[i \in 1..MaxBatch |-> Tick(i - 1, 100)]}
\* the provider call that raises in a cycle: none, the listing or the candles
\* of the discovery provider, the records of the enrichment provider
Failures == {"None", "get_pools", "dex_screener.get_pools", "get_ohlcv"}

\* run_one_cycle(): update_using_api() and, were it not commented out,
\* send_signal_messages(); an exception leaves the loop of run_event_loop,
\* which catches CancelledError only
RunOneCycle ==
    /\ running
    /\ registry.update_counter < MaxCycles
    /\ \E top \in TopLists, trending \in TrendingLists, quote \in Quotes,
          requests_left \in 0..MaxBudget, candles \in Candles, failing \in Failures :
        \E r \in update_using_api(state,
                                  Answers(top, trending, quote, requests_left, candles,
                                          failing)) :
            /\ registry' = r.registry
            /\ heap' = collect(r).heap
            /\ running' = (r.err = "None")
            /\ event' = [NoEvent EXCEPT
                            !.op = "run_one_cycle", !.pre = state, !.pre_chart = chart,
                            !.err = r.err, !.requested = r.requested,
                            !.returned = r.returned,
                            !.updates = r.updates, !.fetched = r.fetched,
                            !.resets = r.resets, !.applied = r.applied,
                            !.listed = r.listed,
                            !.candles = IF r.fetched = <<>> THEN <<>> ELSE candles]
    /\ UNCHANGED <<chart, call, created, users>>

\* Pools.update is called with a tracked or a new pool
Track == UpdateWith(TrackedRecords)

\* the chart of a tracked pool is filled: p.chart.update(ticks)
FeedChart ==
    /\ running
    /\ chart.ticks.size = 0
    /\ \E p \in registry.pools, ticks \in FeedSeries :
        /\ heap[p].chart = DefaultChart
        /\ DoUpdate(ticks)
        /\ event' = [NoEvent EXCEPT !.op = "chart_update", !.pool = p, !.pre = state,
                                     !.pre_chart = chart]
    /\ UNCHANGED <<registry, heap, created, users, running>>

NextBot == RunOneCycle \/ Track \/ FeedChart

InitBotAndChart == InitBot /\ InitChart

SpecBot == InitBotAndChart /\ [][NextBot]_vars

-----------------------------------------------------------------------------
(***************************************************************************)
(* main.py: the main loop of TONSonar over more cycles than the interval   *)
(* of apply_filter and of the discovery, one pool fed to its registry:     *)
(* SpecCycles                                                              *)
(***************************************************************************)

\* most cycles of the main loop that complete
MaxCounter == 41

\* what the discovery provider lists for TOP
CycleLists == {<<>>, <<"A">>}
\* the requests the discovery provider has left in a cycle
CycleBudgets == {0, 1}

\* TONSonar.__init__, nobody subscribed
InitCycles ==
    /\ registry \in {Pools(f, TRUE) : f \in Filters}
    /\ heap = NoObjects
    /\ created = 0
    /\ users = [user_ids |-> {}, muted |-> {}]
    /\ running = TRUE
    /\ event = NoEvent
    /\ InitChart

\* run_one_cycle(), as RunOneCycle
RunCycle ==
    /\ running
    /\ registry.update_counter < MaxCounter
    /\ \E top \in CycleLists, quote \in Quotes, requests_left \in CycleBudgets,
          candles \in Candles, failing \in Failures :
        \E r \in update_using_api(state,
                                  Answers(top, <<>>, quote, requests_left, candles,
                                          failing)) :
            /\ registry' = r.registry
            /\ heap' = collect(r).heap
            /\ running' = (r.err = "None")
            /\ event' = [NoEvent EXCEPT
                            !.op = "run_one_cycle", !.pre = state, !.pre_chart = chart,
                            !.err = r.err, !.requested = r.requested,
                            !.returned = r.returned,
                            !.updates = r.updates, !.fetched = r.fetched,
                            !.resets = r.resets, !.applied = r.applied,
                            !.listed = r.listed,
                            !.candles = IF r.fetched = <<>> THEN <<>> ELSE candles]
    /\ UNCHANGED <<chart, call, created, users>>

\* Pools.update is called with the pool A
TrackOne == UpdateWith({Record("A", 2, 2, 1)})

NextCycles == RunCycle \/ TrackOne

SpecCycles == InitCycles /\ [][NextCycles]_vars

-----------------------------------------------------------------------------
(***************************************************************************)
(* main.py: send_signal_messages called on the registry and the charts of  *)
(* the bot, two users subscribed: SpecAlerts                               *)
(***************************************************************************)

\* the Users object: two users, nothing muted or the token T1 muted by user 1
AlertUsers ==
    {[user_ids |-> {1, 2}, muted |-> {}], [user_ids |-> {1, 2}, muted |-> {<<1, "T1">>}]}

InitAlerts ==
    /\ InitChart
    /\ registry \in {Pools(f, TRUE) : f \in Filters}
    /\ heap = NoObjects
    /\ created = 0
    /\ users \in AlertUsers
    /\ running = TRUE
    /\ event = NoEvent

\* send_signal_messages() is called; Telegram reports one status per user
SendSignalMessages ==
    /\ running
    /\ \E user_ids \in orders(users.user_ids), status \in [users.user_ids -> STATUSES] :
        \E r \in {send_signal_messages(state, users, user_ids, status)} :
            event' = [NoEvent EXCEPT !.op = "send_signal_messages", !.arg = status,
                                     !.pre = state, !.pre_chart = chart,
                                     !.err = r.err, !.attempts = r.attempts]
    /\ UNCHANGED <<chart, call, registry, heap, created, users, running>>

NextAlerts == Track \/ FeedChart \/ SendSignalMessages

SpecAlerts == InitAlerts /\ [][NextAlerts]_vars

-----------------------------------------------------------------------------
(***************************************************************************)
(* main.py: the mute buttons pressed while the registry is fed and         *)
(* filtered: SpecMute                                                      *)
(***************************************************************************)

\* the payloads of the buttons (callback_data), line 138-146
MUTE_OPTIONS == {1, 3, 7, -1, 0}

\* the presses: of user 1, on a message naming the token T1 or a token T9 no
\* pool has
Presses ==
    {[option |-> o, user_id |-> 1, address |-> a, ticker |-> t] :
        o \in MUTE_OPTIONS, a \in {"T1", "T9"}, t \in {"T1", "t1", "T9"}}

\* TONSonar(): the admission predicate and the key volume set; user 1 known
InitMute ==
    /\ InitChart
    /\ registry = Pools([configured |-> TRUE, on_list |-> "False"], TRUE)
    /\ heap = NoObjects
    /\ created = 0
    /\ users = [user_ids |-> {1}, muted |-> {}]
    /\ running = TRUE
    /\ event = NoEvent

\* a mute button is pressed
ButtonsMute ==
    /\ running
    /\ \E press \in Presses :
        \E r \in buttons_mute(state, users, press) :
            /\ users' = r.users
            /\ event' = [NoEvent EXCEPT !.op = "buttons_mute", !.arg = press,
                                        !.pre = state, !.pre_chart = chart,
                                        !.err = r.err, !.answered = r.answered,
                                        !.notice = r.notice, !.edited = r.edited,
                                        !.ops = r.ops]
    /\ UNCHANGED <<chart, call, registry, heap, created, running>>

NextMute == Track \/ ApplyFilter \/ ButtonsMute

SpecMute == InitMute /\ [][NextMute]_vars

-----------------------------------------------------------------------------
(***************************************************************************)
(* main.py: pools_to_message applied to its arguments: SpecMessage         *)
(***************************************************************************)

\* most pools of a message
MaxPools == 2
\* largest message_max_length
MaxLength == 250

\* the pools of a message: with and without liquidity and creation date
MessagePools ==
    {[address |-> "A", liquidity |-> l, creation_date |-> d] : l \in {0, 2}, d \in {0, 1}}

\* the arguments of pools_to_message; a banner is given by its two texts'
\* characters, 0 for None
MessageArguments ==
    [pools : UNION {[1..n -> MessagePools] : n \in 0..MaxPools},
     prefix : {0, 1}, postfix : {0, 1}, message_max_length : 0..MaxLength]

\* the bot as main.py sets it up, and the arguments of the call to come
InitMessage ==
    /\ InitChart
    /\ registry = Pools([configured |-> TRUE, on_list |-> "False"], TRUE)
    /\ heap = NoObjects
    /\ created = 0
    /\ users = [user_ids |-> {}, muted |-> {}]
    /\ running = TRUE
    /\ \E arguments \in MessageArguments : event = [NoEvent EXCEPT !.arg = arguments]

\* pools_to_message is called with the arguments
PoolsToMessage ==
    /\ event.op = "init"
    /\ event' = [event EXCEPT !.op = "pools_to_message",
                              !.message = pools_to_message(event.arg.pools, event.arg.prefix,
                                                           event.arg.postfix,
                                                           event.arg.message_max_length)]
    /\ UNCHANGED <<chart, call, registry, heap, created, users, running>>

NextMessage == PoolsToMessage

SpecMessage == InitMessage /\ [][NextMessage]_vars

-----------------------------------------------------------------------------
(***************************************************************************)
(* Vocabulary of the properties of the chart                               *)
(***************************************************************************)

\* the samples of the chart before and after the call just made, oldest first
Before == iter(call.pre.ticks)
After == iter(chart.ticks)

\* has_signal() was just called
PlainCall == call.op = "has_signal" /\ ~call.only_new

TimeOrdered(s) == \A i \in 2..Len(s) : s[i - 1].timestamp < s[i].timestamp

EquallySpaced(s) ==
    \A i \in 3..Len(s) : s[i].timestamp - s[i - 1].timestamp = s[2].timestamp - s[1].timestamp

\* from sample a to sample b of s (counted from 1) the price rises, falls at every step
Rising(s, a, b) == \A i \in (a + 1)..b : s[i].price > s[i - 1].price
Falling(s, a, b) == \A i \in (a + 1)..b : s[i].price < s[i - 1].price

Duration(s, a, b) == s[b].timestamp - s[a].timestamp

\* the price of sample b is at least percent % above, below the price of sample a
RoseBy(s, a, b, percent) == (s[b].price - s[a].price) * 100 >= percent * s[a].price
FellBy(s, a, b, percent) == (s[a].price - s[b].price) * 100 >= percent * s[a].price

\* the sum of the sample-to-sample fractional changes from sample a to sample b
RECURSIVE SummedChange(_, _, _)
SummedChange(s, a, b) ==
    IF b <= a THEN 0
    ELSE SummedChange(s, a, b - 1)
         + (s[b].price - s[b - 1].price) * (Scale \div s[b - 1].price)

\* the index (from 0) of the first sample of s not older than the first sample
\* of the batch, Len(s) when every sample is older
FirstNotOlder(s, ticks) ==
    LET hits == {i \in 0..(Len(s) - 1) : s[i + 1].timestamp >= ticks[1].timestamp}
    IN  IF hits = {} THEN Len(s)
        ELSE CHOOSE i \in hits : \A j \in hits : i <= j

-----------------------------------------------------------------------------
(***************************************************************************)
(* Chart.update (SpecChart)                                                *)
(***************************************************************************)

\* C5: Chart.update(batch) on a chart holding the time-ordered samples S
\* returns and leaves S[0:i] followed by the batch, i being the index of the
\* first sample of S not older than the batch's first sample, len(S) when there
\* is none (the samples fitting the ring buffer)
C5_UpdateReplacesFromFirstNotOlder ==
    (/\ call.op = "update"
     /\ TimeOrdered(Before)
     /\ FirstNotOlder(Before, call.ticks) + Len(call.ticks) <= CHART_MAX_TICKS)
    => /\ call.err = "None"
       /\ After = SubSeq(Before, 1, FirstNotOlder(Before, call.ticks)) \o call.ticks

\* C18: Chart.update with the batch of the update made just before, which
\* returned, returns and leaves the samples of the chart as they were
C18_UpdateIdempotent ==
    (call.op = "update" /\ call.again)
    => /\ call.err = "None"
       /\ After = Before

\* a batch of two samples was applied again to a chart that had evicted samples
C18_BatchRepeated ==
    /\ call.op = "update"
    /\ call.again
    /\ Len(call.ticks) = 2
    /\ call.pre.ticks.beginning # 0

\* C19: in every state reached by Chart.update calls the timestamps of the
\* samples of the chart do not decrease from the oldest sample to the newest
C19_ChartTimeOrdered ==
    \A i \in 2..Len(After) : After[i - 1].timestamp <= After[i].timestamp

-----------------------------------------------------------------------------
(***************************************************************************)
(* Chart.has_signal (SpecSignal)                                           *)
(***************************************************************************)

\* has_signal() on more than 3 equally spaced samples that rise at every step,
\* by at least 5% over at least 20 minutes, returns true by matching UPTREND
C6_Uptrend ==
    (/\ PlainCall
     /\ Len(Before) > 3
     /\ EquallySpaced(Before)
     /\ Rising(Before, 1, Len(Before))
     /\ RoseBy(Before, 1, Len(Before), 5)
     /\ Duration(Before, 1, Len(Before)) >= 20)
    => call.ret /\ call.match.signal = "UPTREND"

\* has_signal() on more than 3 equally spaced samples that fall at every step,
\* by at least 5% within at most 10 minutes, returns true by matching DUMP
C6_Dump ==
    (/\ PlainCall
     /\ Len(Before) > 3
     /\ EquallySpaced(Before)
     /\ Falling(Before, 1, Len(Before))
     /\ FellBy(Before, 1, Len(Before), 5)
     /\ Duration(Before, 1, Len(Before)) <= 10)
    => call.ret /\ call.match.signal = "DUMP"

\* C6: a monotone rise of at least 5% over at least 20 minutes is reported as
\* UPTREND, a monotone fall of at least 5% within at most 10 minutes as DUMP
C6_UptrendAndDump == C6_Uptrend /\ C6_Dump

\* samples 1..k of s fall at every step, by at least 10% over at least 20
\* minutes, and samples k..Len(s) rise at every step
FallThenRise(s, k) ==
    /\ Falling(s, 1, k)
    /\ FellBy(s, 1, k, 10)
    /\ Duration(s, 1, k) >= 20
    /\ Rising(s, k, Len(s))

\* the rise from sample k on qualifies as UPTREND by itself
RiseIsUptrend(s, k) ==
    SummedChange(s, k, Len(s)) >= _fraction(5) /\ Duration(s, k, Len(s)) >= 20

\* C7 as stated: has_signal() on a fall of at least 10% over at least 20
\* minutes followed by a rise of at least 3% returns true by matching
\* DOWNTREND_REVERSAL
C7_ReversalAsStated ==
    \A k \in 2..(Len(Before) - 1) :
        (/\ PlainCall
         /\ FallThenRise(Before, k)
         /\ RoseBy(Before, k, Len(Before), 3))
        => call.ret /\ call.match.signal = "DOWNTREND_REVERSAL"

\* C7, amended: has_signal() on more than 3 samples, a fall of at least 10%
\* over at least 20 minutes followed by a rise whose sample-to-sample changes
\* sum to at least 3%, returns true; it matches DOWNTREND_REVERSAL on the two
\* trailing trends, the fall and the rise, unless the rise qualifies as UPTREND
\* by itself, and UPTREND on the rise then
C7_Reversal ==
    \A k \in 2..(Len(Before) - 1) :
        (/\ PlainCall
         /\ Len(Before) > 3
         /\ FallThenRise(Before, k)
         /\ SummedChange(Before, k, Len(Before)) >= _fraction(3))
        => /\ call.ret
           /\ call.err = "None"
           /\ call.match =
                IF RiseIsUptrend(Before, k)
                THEN Match("UPTREND", Before[k].timestamp, Before[Len(Before)].timestamp)
                ELSE Match("DOWNTREND_REVERSAL", Before[1].timestamp,
                           Before[Len(Before)].timestamp)
           /\ chart.trends = <<Trend(SummedChange(Before, 1, k), 0, k - 1),
                                Trend(SummedChange(Before, k, Len(Before)), k - 1,
                                      Len(Before) - 1)>>

\* has_signal() reported DOWNTREND_REVERSAL on a fall followed by a rise of
\* several samples that is no UPTREND
C7_ReversalReported ==
    /\ PlainCall
    /\ call.ret
    /\ call.match.signal = "DOWNTREND_REVERSAL"
    /\ \E k \in 2..(Len(Before) - 2) :
        /\ FallThenRise(Before, k)
        /\ SummedChange(Before, k, Len(Before)) >= _fraction(3)
        /\ ~RiseIsUptrend(Before, k)

\* C8: has_signal(only_new=True) on a chart that never reported a signal and
\* whose trailing trends match a signal returns true and records the time the
\* matched trends end at
C8_FirstReportSucceeds ==
    (/\ call.op = "has_signal"
     /\ call.only_new
     /\ call.match # NoMatch
     /\ call.pre.signal_end_timestamp = NoTimestamp)
    => /\ call.err = "None"
       /\ call.ret
       /\ chart.signal_end_timestamp = call.match.end_timestamp

\* C9: has_signal(only_new=True) that matches the signal the has_signal(only_new=True)
\* call before it matched, on trends that begin where they began then and end
\* later, returns true
C9_ExtendedTrendReportedAgain ==
    (/\ call.op = "has_signal"
     /\ call.only_new
     /\ call.match # NoMatch
     /\ call.asked.signal = call.match.signal
     /\ call.asked.first_timestamp = call.match.first_timestamp
     /\ call.asked.end_timestamp < call.match.end_timestamp)
    => call.err = "None" /\ call.ret

\* has_signal was just called on more than 3 samples: the trends were computed
Segmented == call.op = "has_signal" /\ Len(Before) > 3

\* the trend of the step from sample k of s to the next one (k counted from 1)
Step(s, k) == Trend(SummedChange(s, k, k + 1), k - 1, k)

\* a and c have the same sign, b the other one, and b is not larger than a, c
\* and 5%
Noise(a, b, c) ==
    /\ Sign(a.change) # 0
    /\ Sign(c.change) = Sign(a.change)
    /\ Sign(b.change) = -Sign(a.change)
    /\ Abs(b.change) <= Min(Abs(a.change), Abs(c.change))
    /\ Abs(b.change) <= 5 * (Scale \div 100)

\* the trends follow one another from the first sample on, and the change of
\* each is the sum of the changes of the steps it spans
Summed(trends, s) ==
    \A j \in 1..Len(trends) :
        /\ trends[j].beginning = (IF j = 1 THEN 0 ELSE trends[j - 1].end)
        /\ trends[j].change = SummedChange(s, trends[j].beginning + 1, trends[j].end + 1)

\* C20: after segmentation no three consecutive trends are left of which the
\* outer two have the same sign and the inner one is a move against them of at
\* most 5% and at most the size of either; every trend has the summed change of
\* the steps from its beginning to its end; and when the samples move one way up
\* to step k and steps k, k + 1, k + 2 are such a triple, the first trend spans
\* them all (it is the only trend when the triple ends the series)
C20_NoiseMerged ==
    Segmented
    => /\ Summed(chart.trends, Before)
       /\ \A j \in 1..(Len(chart.trends) - 2) :
            ~Noise(chart.trends[j], chart.trends[j + 1], chart.trends[j + 2])
       /\ \A k \in 1..(Len(Before) - 3) :
            (/\ Rising(Before, 1, k + 1) \/ Falling(Before, 1, k + 1)
             /\ Noise(Step(Before, k), Step(Before, k + 1), Step(Before, k + 2)))
            => /\ chart.trends[1].beginning = 0
               /\ chart.trends[1].end >= k + 2
               /\ k + 3 = Len(Before)
                  => chart.trends =
                        <<Trend(SummedChange(Before, 1, Len(Before)), 0, Len(Before) - 1)>>

\* C25: after segmentation no two adjacent trends have the same sign (a
\* product of changes >= 0) and no three consecutive trends meet the
\* noise-merge condition
C25_TrendsAlternate ==
    Segmented
    => /\ \A j \in 1..(Len(chart.trends) - 1) :
            Sign(chart.trends[j].change) * Sign(chart.trends[j + 1].change) < 0
       /\ \A j \in 1..(Len(chart.trends) - 2) :
            ~Noise(chart.trends[j], chart.trends[j + 1], chart.trends[j + 2])

C20_BounceMerged ==
    /\ Segmented
    /\ Len(Before) = 4
    /\ Step(Before, 1).change < 0
    /\ Noise(Step(Before, 1), Step(Before, 2), Step(Before, 3))
    /\ Len(chart.trends) = 1

-----------------------------------------------------------------------------
(***************************************************************************)
(* CircularList (SpecAppend)                                               *)
(***************************************************************************)

\* the last n items of a sequence
Newest(q, n) == SubSeq(q, Len(q) - n + 1, Len(q))

\* C16: once more items than its capacity were appended to an empty
\* CircularList, its size is the capacity, iteration and the indices
\* 0..capacity-1 give the last capacity items appended, in the order of
\* appending (the negative indices counting from the newest), and no other
\* index gives an item
C16_AppendKeepsNewest ==
    (call.op = "append" /\ Len(call.ticks) > Capacity)
    => /\ chart.ticks.size = Capacity
       /\ iter(chart.ticks) = Newest(call.ticks, Capacity)
       /\ \A index \in 0..(Capacity - 1) :
            getitem(chart.ticks, index) =
                [ret |-> Newest(call.ticks, Capacity)[index + 1], err |-> "None"]
       /\ \A index \in 1..(Capacity - 1) :
            getitem(chart.ticks, -index) =
                [ret |-> Newest(call.ticks, Capacity)[Capacity - index + 1], err |-> "None"]
       /\ getitem(chart.ticks, Capacity).err = "IndexError"
       /\ getitem(chart.ticks, -Capacity).err = "IndexError"

\* two items more than the capacity were appended
C16_TwoEvicted ==
    /\ call.op = "append"
    /\ Len(call.ticks) = Capacity + 2
    /\ chart.ticks.size = Capacity

\* slicing a plain list: its items at the positions start..stop-1, a bound
\* left out being the end of the list on its side
PlainSlice(q, start, stop) ==
    SubSeq(q, (IF start # NoIndex THEN start ELSE 0) + 1,
              IF stop # NoIndex THEN stop ELSE Len(q))

\* C17: slicing a CircularList by a range within its content gives the items
\* at the logical positions start..stop-1, oldest first, as slicing a plain
\* list of the same content does
C17_SliceAsPlainList ==
    call.op = "slice"
    => /\ call.err = "None"
       /\ call.items = PlainSlice(iter(chart.ticks), call.start, call.stop)

-----------------------------------------------------------------------------
(***************************************************************************)
(* Pools.update (SpecRegistry)                                             *)
(***************************************************************************)

\* the pools with the given address that were tracked before the operation
TrackedBefore(address) ==
    {p \in event.pre.registry.pools : event.pre.heap[p].address = address}

\* the admission predicate, when one is configured, admits the record
Admitted(p) == event.pre.registry.pool_filter.configured => POOL_DEFAULT_FILTER(p)

\* C10: Pools.update with a fresher instance of a tracked pool that passes the
\* admission filter leaves the tracked Pool object tracked, with its chart, and
\* gives its scalar fields the incoming values
C10_RefreshMergesIntoTrackedPool ==
    (event.op = "update" /\ Admitted(event.arg))
    => \A p \in TrackedBefore(event.arg.address) :
        /\ p \in registry.pools
        /\ heap[p].chart = event.pre.heap[p].chart
        /\ \A f \in Scalars : heap[p][f] = event.arg[f]

\* the Token objects with the identity of the incoming base token in a token set
SameToken(h, tokens) ==
    {t \in tokens : /\ h[t].class = "Token"
                    /\ h[t].address = event.arg.base_token.address}

\* the tokens tracked before the update that have the identity of the incoming
\* base token and another ticker
Renamed ==
    {t \in SameToken(event.pre.heap, event.pre.registry.tokens) :
        event.pre.heap[t].ticker # event.arg.base_token.ticker}

\* after the update the token set holds one Token with the identity of the
\* incoming base token, the object t, with the incoming ticker, and the
\* pool refers to it
TokenMerged(t) ==
    /\ SameToken(heap, registry.tokens) = {t}
    /\ heap[t].ticker = event.arg.base_token.ticker
    /\ event.base_token = t

\* the pools tracked before the update that have another address than the
\* incoming pool and its pair of tokens
Rivals ==
    {q \in event.pre.registry.pools :
        /\ event.pre.heap[q].address # event.arg.address
        /\ event.pre.heap[event.pre.heap[q].base_token].address
            = event.arg.base_token.address
        /\ event.pre.heap[event.pre.heap[q].quote_token].address
            = event.arg.quote_token.address}

\* the dedup ranking prefers another pool to the incoming one: the key is
\* configured and a tracked pool of another address with its pair of tokens
\* has no lower volume
Outranked ==
    /\ event.pre.registry.repeated_pool_filter_key
    /\ \E q \in Rivals : event.pre.heap[q].volume >= event.arg.volume

\* C12: once Pools.update is called with a pool that passes the admission
\* filter, that no other pool outranks and whose base token has the identity
\* of a tracked token and another ticker, the token set holds one Token of
\* that identity, the tracked object, with the incoming ticker, and the pool
\* refers to it
C12_TickerMerged ==
    (event.op = "update" /\ Admitted(event.arg) /\ ~Outranked)
    => \A t \in Renamed : TokenMerged(t)

\* no DEX with this id is in the DEX set unless a tracked pool refers to one
NoOrphanDEX(id) ==
    \A d \in registry.dexes :
        (heap[d].class = "DEX" /\ heap[d].id = id)
        => \E p \in registry.pools : heap[heap[p].dex].id = id

\* C11: with the volume key configured, once a pool is registered while a
\* pool of another address with the same pair of tokens and another volume is
\* tracked, only the one with the higher volume is tracked; the other is not
\* in the pool set, nor its DEX in the DEX set unless a tracked pool refers
\* to it
C11_HigherVolumePoolStays ==
    (/\ event.op = "update"
     /\ event.pre.registry.repeated_pool_filter_key
     /\ Admitted(event.arg))
    => \A q \in Rivals :
        LET volume == event.pre.heap[q].volume
            dex_id == event.pre.heap[event.pre.heap[q].dex].id
        IN  /\ event.arg.volume > volume
               => /\ event.pool \in registry.pools
                  /\ \A p \in registry.pools : heap[p].address # event.pre.heap[q].address
                  /\ NoOrphanDEX(dex_id)
            /\ event.arg.volume < volume
               => /\ q \in registry.pools
                  /\ \A p \in registry.pools : heap[p].address # event.arg.address
                  /\ NoOrphanDEX(event.arg.dex_id)

\* a pool was registered with a higher volume than a tracked pool of its pair
\* on another DEX
C11_RivalReplaced ==
    /\ event.op = "update"
    /\ event.pre.registry.repeated_pool_filter_key
    /\ \E q \in Rivals :
        /\ event.arg.volume > event.pre.heap[q].volume
        /\ event.pre.heap[event.pre.heap[q].dex].id # event.arg.dex_id
    /\ event.pool \in registry.pools

\* C13: after apply_filter() with an admission predicate configured the pool
\* set holds the pools tracked before that satisfy the predicate, the token
\* set their base and quote tokens, the DEX set their DEXes
C13_ApplyFilterRecomputesSets ==
    (event.op = "apply_filter" /\ event.pre.registry.pool_filter.configured)
    => /\ registry.pools =
            {p \in event.pre.registry.pools : POOL_DEFAULT_FILTER(event.pre.heap[p])}
       /\ registry.tokens =
            {heap[p].base_token : p \in registry.pools}
            \cup {heap[p].quote_token : p \in registry.pools}
       /\ registry.dexes = {heap[p].dex : p \in registry.pools}

\* the tracked pools whose base token is the token match_pool was asked for
Matches == {p \in registry.pools : heap[heap[p].base_token].address = event.arg}

\* C14: match_pool(token, key) returns None if and only if no tracked pool has
\* the base token, and otherwise one of the tracked pools with that base token
\* whose key is highest, with or without a dedup key configured
C14_MatchPoolReturnsHighest ==
    event.op = "match_pool"
    => /\ event.ret = None <=> Matches = {}
       /\ Matches # {}
          => /\ event.ret \in Matches
             /\ \A q \in Matches : heap[q][event.key] <= heap[event.ret][event.key]

-----------------------------------------------------------------------------
(***************************************************************************)
(* The refresh cycle and the main loop (SpecBot)                           *)
(***************************************************************************)

Range(f) == {f[i] : i \in DOMAIN f}

IsSuffix(t, q) == Len(t) <= Len(q) /\ SubSeq(q, Len(q) - Len(t) + 1, Len(q)) = t

\* the chart object a pool refers to
ChartOf(p) == IF heap[p].chart = DefaultChart THEN chart ELSE Chart

\* the chart object a pool referred to before the operation
ChartBefore(p) == IF event.pre.heap[p].chart = DefaultChart THEN event.pre_chart ELSE Chart

\* C15: updating the chart of a pool leaves the samples and the signal-end
\* timestamp of the chart of every other pool, both created without a chart
\* argument, as they were
C15_PoolOwnsItsChart ==
    event.op = "chart_update"
    => \A q \in registry.pools \ {event.pool} :
        /\ iter(ChartOf(q).ticks) = iter(ChartBefore(q).ticks)
        /\ ChartOf(q).signal_end_timestamp = ChartBefore(q).signal_end_timestamp

\* the chart holds a signal it has not reported
HasNewSignal(c) == c.signal_end_timestamp = NoTimestamp /\ has_signal(c, FALSE).ret

\* C1: after a cycle of the main loop a send of an alert was attempted for
\* every subscribed user who did not report BLOCK in the cycle and every
\* tracked pool whose chart holds a new signal and whose base token the user
\* has not muted
C1_CycleSendsAlerts ==
    (event.op = "run_one_cycle" /\ event.err = "None")
    => \A u \in users.user_ids, p \in registry.pools :
        (/\ u \notin event.blocked
         /\ HasNewSignal(ChartOf(p))
         /\ <<u, heap[heap[p].base_token].address>> \notin users.muted)
        => <<u, heap[p].address>> \in event.sends

\* one object per token and DEX identity, the one the tracked pools refer to
Canonical ==
    /\ \A p \in registry.pools :
        /\ heap[p].base_token \in registry.tokens
        /\ heap[p].quote_token \in registry.tokens
        /\ heap[p].dex \in registry.dexes
    /\ \A x \in registry.tokens : heap[x].class = "Token"
    /\ \A x \in registry.dexes : heap[x].class = "DEX"
    /\ \A x, y \in registry.tokens \cup registry.dexes : eq(heap, x, y) => x = y

\* C2: a cycle that starts with an empty registry, in which the discovery
\* provider lists two pools of different pairs and the enrichment provider
\* returns their records, both passing the admission filter, ends without
\* error and leaves exactly these two pools tracked, their tokens and DEX
\* being the registry's own objects
C2_CycleTracksDiscoveredPools ==
    (/\ event.op = "run_one_cycle"
     /\ event.pre.registry.pools = {}
     /\ Len(event.returned) = 2
     /\ event.returned[1].base_token.address # event.returned[2].base_token.address
     /\ \A i \in 1..2 : POOL_DEFAULT_FILTER(event.returned[i]))
    => /\ event.err = "None"
       /\ {heap[p].address : p \in registry.pools} =
            {event.returned[i].address : i \in 1..2}
       /\ Cardinality(registry.pools) = 2
       /\ Canonical

\* in every cycle the address of every pool that was tracked and passes the
\* admission filter is requested from the enrichment provider, in batches of
\* at most MAX_ADDRESSES
C3_TrackedRequested ==
    event.op = "run_one_cycle"
    => /\ \A p \in event.pre.registry.pools :
            POOL_DEFAULT_FILTER(event.pre.heap[p])
            => \E b \in Range(event.requested) : event.pre.heap[p].address \in Range(b)
       /\ \A b \in Range(event.requested) : Len(b) <= MAX_ADDRESSES

\* in every cycle Pools.update is called with each record the enrichment
\* provider returned
C3_ReturnedFed ==
    event.op = "run_one_cycle"
    => \A p \in Range(event.returned) :
        \E u \in Range(event.updates) : ~u.list /\ u.pools = <<p>>

\* C3: every cycle, discovery cycle or not, requests the tracked pools from
\* the enrichment provider and feeds every returned record to Pools.update
C3_EveryCycleEnriches == C3_TrackedRequested /\ C3_ReturnedFed

\* C4: after a cycle the chart of every pool candles were fetched for holds
\* the fetched candles as its newest samples
C4_FetchedCandlesFeedChart ==
    (event.op = "run_one_cycle" /\ event.err = "None")
    => \A a \in Range(event.fetched) :
        \A p \in registry.pools :
            heap[p].address = a => IsSuffix(event.candles, iter(ChartOf(p).ticks))

\* C21: after a cycle that a failing provider call aborted the main loop is
\* still running (it goes on to the next cycle)
C21_LoopSurvivesProviderFailure ==
    (event.op = "run_one_cycle" /\ event.err = "ProviderError") => running

\* the sends to user u among the attempts, in their order
SendsTo(u) == SelectSeq(event.attempts, LAMBDA a : a[1] = u)

\* the pools user u is to be alerted of: tracked, with a new signal, the base
\* token not muted by u
Due(u) ==
    {heap[p].address : p \in {q \in registry.pools :
        /\ HasNewSignal(ChartOf(q))
        /\ <<u, heap[heap[q].base_token].address>> \notin users.muted}}

\* C22: in a send_signal_messages call no send to a user follows a send to
\* that user that reported BLOCK, and every user, whatever the other users'
\* sends reported, is sent the alert of every pool due to them unless a send
\* to them reported BLOCK (a send that reports SUCCESS, REMOVED or EXCEPTION
\* stops nothing)
C22_BlockStopsUserOnly ==
    event.op = "send_signal_messages"
    => \A u \in users.user_ids :
        /\ \A i \in 1..(Len(SendsTo(u)) - 1) : SendsTo(u)[i][3] # "BLOCK"
        /\ event.arg[u] # "BLOCK"
           => Due(u) \subseteq {SendsTo(u)[i][2] : i \in 1..Len(SendsTo(u))}
        /\ event.arg[u] = "BLOCK" /\ Due(u) # {}
           => Len(SendsTo(u)) = 1

\* the Token objects the registry knows
KnownTokens == {t \in registry.tokens : heap[t].class = "Token"}

\* the press just handled names no known token: by the address for a payload
\* other than 0, by the ticker for the payload 0
Unresolved ==
    IF event.arg.option # 0
    THEN \A t \in KnownTokens : heap[t].address # event.arg.address
    ELSE \A t \in KnownTokens : lower(heap[t].ticker) # lower(event.arg.ticker)

\* C23: a press of a mute button that names no known token makes no call on
\* the user registry and no edit of the message, and sends the private notice
C23_UnresolvedPressOnlyNotifies ==
    (event.op = "buttons_mute" /\ Unresolved)
    => /\ event.err = "None"
       /\ event.ops = <<>>
       /\ ~event.edited
       /\ event.notice

\* the stripped length of the message that holds the banners and the blocks
\* of the first k pools of the call
RECURSIVE BlocksLen(_)
BlocksLen(k) ==
    IF k = 0 THEN 0
    ELSE BlocksLen(k - 1) + (IF k > 1 THEN 2 ELSE 0) + block(event.arg.pools[k])

StrippedLen(k) ==
    LET prefix == fit_prefix_or_postfix(event.arg.prefix)
        postfix == fit_prefix_or_postfix(event.arg.postfix)
        parts == Cardinality({i \in 1..3 : <<prefix, BlocksLen(k), postfix>>[i] # 0})
    IN  prefix + BlocksLen(k) + postfix + 2 * Max(parts - 1, 0)

\* C24: the message of pools_to_message holds the blocks of the first k pools
\* given, in their order, k being the largest number for which the stripped
\* length of the message is at most message_max_length for every number of
\* blocks from 1 to k; its stripped length is then that of these blocks and
\* the banners, at most message_max_length when a block is held
C24_LeadingPoolsThatFit ==
    event.op = "pools_to_message"
    => LET k == Len(event.message.blocks)
           n == Len(event.arg.pools)
       IN  /\ k <= n
           /\ event.message.blocks = SubSeq(event.arg.pools, 1, k)
           /\ \A j \in 1..k : StrippedLen(j) <= event.arg.message_max_length
           /\ k < n => StrippedLen(k + 1) > event.arg.message_max_length
           /\ event.message.len = StrippedLen(k)
           /\ k >= 1 => event.message.len <= event.arg.message_max_length

\* one of two pools was included, the message exactly as long as allowed
C24_SecondPoolOmitted ==
    /\ event.op = "pools_to_message"
    /\ Len(event.arg.pools) = 2
    /\ Len(event.message.blocks) = 1
    /\ event.message.len = event.arg.message_max_length

\* C27: the cycle counter starts at 0 and grows by exactly 1 in a cycle that
\* completes and by nothing otherwise; apply_filter and the discovery run in
\* the cycles that start with a counter divisible by 20 and in no other, where
\* the registry is left as it was and no record is requested; a cycle that
\* completes resets the request counters of both API clients, a cycle that
\* raises resets none and leaves the counter
C27_CounterAndSchedule ==
    /\ event.op = "init" => registry.update_counter = 0
    /\ event.op \notin {"init", "run_one_cycle"}
        => registry.update_counter = event.pre.registry.update_counter
    /\ event.op = "run_one_cycle"
        => LET before == event.pre.registry.update_counter
               due == before % 20 = 0
           IN  /\ event.applied <=> due
               /\ event.listed # <<>> <=> due
               /\ ~due => /\ event.requested = <<>>
                          /\ registry.pools = event.pre.registry.pools
                          /\ registry.tokens = event.pre.registry.tokens
                          /\ registry.dexes = event.pre.registry.dexes
               /\ event.err = "None"
                   => /\ registry.update_counter = before + 1
                      /\ event.resets = {"geckoterminal_api", "dex_screener_api"}
                      /\ due => event.listed = <<"TOP", "TRENDING">>
               /\ event.err # "None"
                   => /\ registry.update_counter = before
                      /\ event.resets = {}

\* the cycle that starts with the counter 20 has completed with a pool tracked:
\* it applied the filter, listed both sources and requested a record
C27_CounterTwentyDiscovers ==
    /\ event.op = "run_one_cycle"
    /\ event.pre.registry.update_counter = 20
    /\ event.pre.registry.pools # {}
    /\ event.err = "None"
    /\ event.applied
    /\ event.requested # <<>>
    /\ registry.update_counter = 21

\* C28: after any Pools.update and apply_filter calls every tracked pool
\* refers to the Token and DEX objects held in the token set and the DEX set
\* of the registry, the token set holds Token objects only, and no two objects
\* referred to by tracked pools have the same token or DEX identity
C28_CanonicalObjects ==
    /\ \A p \in registry.pools :
        /\ heap[p].base_token \in registry.tokens
        /\ heap[p].quote_token \in registry.tokens
        /\ heap[p].dex \in registry.dexes
    /\ \A x \in registry.tokens : heap[x].class = "Token"
    /\ \A p, q \in registry.pools :
        \A x \in {heap[p].base_token, heap[p].quote_token, heap[p].dex},
           y \in {heap[q].base_token, heap[q].quote_token, heap[q].dex} :
            eq(heap, x, y) => x = y

\* the sum of the changes of the trends
RECURSIVE TotalChange(_)
TotalChange(trends) ==
    IF trends = <<>> THEN 0 ELSE Head(trends).change + TotalChange(Tail(trends))

\* C29: after _construct_segments on a chart with samples the trends tile the
\* index range: the first begins at 0, the last ends at size - 1, each begins
\* where the one before it ends, beginning <= end are logical indices of the
\* chart, and the changes of the trends add up to the sum of the
\* sample-to-sample fractional changes
C29_TrendsTileTheChart ==
    call.op = "segments"
    => LET trends == chart.trends
           size == chart.ticks.size
       IN  /\ trends # <<>>
           /\ trends[1].beginning = 0
           /\ trends[Len(trends)].end = size - 1
           /\ \A j \in 2..Len(trends) : trends[j].beginning = trends[j - 1].end
           /\ \A j \in 1..Len(trends) :
                /\ 0 <= trends[j].beginning
                /\ trends[j].beginning <= trends[j].end
                /\ trends[j].end <= size - 1
           /\ TotalChange(trends) = SummedChange(After, 1, size)

\* a chart of more than 3 samples was segmented into more than one trend, one
\* of them spanning more than one step
C29_SeveralTrends ==
    /\ call.op = "segments"
    /\ chart.ticks.size > 3
    /\ Len(chart.trends) > 1
    /\ \E j \in 1..Len(chart.trends) : chart.trends[j].end > chart.trends[j].beginning + 1

\* C30: with a dedup key configured, after any Pools.update and apply_filter
\* calls no two distinct tracked pools have the same base token and the same
\* quote token
C30_OnePoolPerPair ==
    registry.repeated_pool_filter_key
    => \A p, q \in registry.pools :
        (/\ eq(heap, heap[p].base_token, heap[q].base_token)
         /\ eq(heap, heap[p].quote_token, heap[q].quote_token))
        => p = q

\* with the key configured, Pools.update was called with a pool of another
\* address than a tracked pool of its pair, both passing the predicate, while a
\* pool of another pair is tracked as well
C30_RivalOfferedBesideOtherPair ==
    /\ event.op = "update"
    /\ event.pre.registry.repeated_pool_filter_key
    /\ event.arg.liquidity >= 2
    /\ \E q \in event.pre.registry.pools :
        /\ event.pre.heap[q].address # event.arg.address
        /\ event.pre.heap[event.pre.heap[q].base_token].address = event.arg.base_token.address
        /\ event.pre.heap[event.pre.heap[q].quote_token].address
            = event.arg.quote_token.address
    /\ Cardinality(registry.pools) = 2

====
